---- MODULE Spec2Model ----
(***************************************************************************)
(* State-machine model of weedbox/postflow: the InMemoryPostStore (posts,  *)
(* reaction ledger, owner index, tag index) and the operations of the      *)
(* PostStore contract.                                                     *)
(***************************************************************************)
EXTENDS Integers, Sequences, FiniteSets, TLC

(***************************************************************************)
(* Program constants                                                       *)
(***************************************************************************)
ReactionNone == 0
ReactionLike == 1
ReactionLove == 2
ReactionHaha == 3
ReactionWow == 4
ReactionSad == 5
ReactionAngry == 6

ValidKinds == (ReactionNone + 1)..ReactionAngry

ErrNil == "nil"
ErrPostNotFound == "post not found"
ErrPermissionDenied == "permission denied"
ErrInvalidReaction == "invalid reaction"

(***************************************************************************)
(* Bounds of the model                                                     *)
(***************************************************************************)
MaxCount == 1       \* largest reaction count a saved post carries
MaxRefs == 2        \* longest index list a new post is still appended to
MaxClock == 2       \* last value time.Now() reaches

PostIDs == {"p1", "p2"}
Threads == {"t1", "t2"}
Users == {"u1", "u2"}
TagNames == {"a", "b"}
NoUser == ""

\* reaction kinds callers pass: both ends of the valid range, one kind
\* inside it and the nearest invalid value on either side
KindInputs == {ReactionNone, ReactionLike, ReactionLove, ReactionAngry, ReactionAngry + 1}

(***************************************************************************)
(* Go maps and slices                                                      *)
(***************************************************************************)
EmptyMap == [k \in {} |-> 0]

\* m[k] of a Go map with int values: the zero value when k is missing
MapGet(m, k) == IF k \in DOMAIN m THEN m[k] ELSE 0

\* m[k] = v
MapPut(m, k, v) == [x \in (DOMAIN m) \cup {k} |-> IF x = k THEN v ELSE m[x]]

\* delete(m, k)
MapDelete(m, k) == [x \in (DOMAIN m) \ {k} |-> m[x]]

\* the elements of a slice
Elems(s) == {s[i] : i \in 1..Len(s)}

\* for i, pid := range s { if pid == x { s = append(s[:i], s[i+1:]...); break } }
RemoveFirst(s, x) ==
    IF x \in Elems(s)
    THEN LET i == CHOOSE j \in 1..Len(s) : s[j] = x /\ \A k \in 1..(j - 1) : s[k] # x
         IN  SubSeq(s, 1, i - 1) \o SubSeq(s, i + 1, Len(s))
    ELSE s

\* a post's Reactions field: a nil map, or a map from reaction kind to count
NilReactions == [isNil |-> TRUE, m |-> EmptyMap]
MakeReactions(m) == [isNil |-> FALSE, m |-> m]

RECURSIVE SumOver(_, _)
SumOver(m, keys) ==
    IF keys = {} THEN 0
    ELSE LET k == CHOOSE x \in keys : TRUE
         IN  m[k] + SumOver(m, keys \ {k})

\* sumReactions: the sum of all counts of a reactions map (0 for a nil map)
sumReactions(r) == SumOver(r.m, DOMAIN r.m)

(***************************************************************************)
(* State                                                                   *)
(***************************************************************************)
VARIABLES
    posts,      \* postID -> Post          (a Go map: only stored IDs are keys)
    reactions,  \* postID -> userID -> UserReaction  (the reaction ledger)
    userPosts,  \* userID -> sequence of postIDs     (owner index)
    tagPosts,   \* tag -> sequence of postIDs        (tag index)
    clock,      \* the value time.Now() returns
    ret,        \* the last call: its operation and what it returned
    mutex,      \* s.mutex: the goroutine that holds it for writing, those that
                \* hold it for reading, those blocked in Lock()
    calls,      \* goroutine -> the call it is in and its position in it
    db          \* the tables of GormPostStore

vars == <<posts, reactions, userPosts, tagPosts, clock, ret, mutex, calls, db>>

store == <<posts, reactions, userPosts, tagPosts>>

\* the state of the goroutines; a call that runs as one step leaves it alone
conc == <<mutex, calls>>

NoFilter ==
    [UserID |-> NoUser, Tags |-> <<>>, HasTimeRange |-> FALSE, Start |-> 0, End |-> 0,
     Visibility |-> "", Limit |-> 0, Offset |-> 0, SortBy |-> "", SortOrder |-> ""]

\* no call made yet; the shape of every value of ret
NoRet ==
    [op |-> "none", err |-> ErrNil, list |-> <<>>, found |-> FALSE, value |-> ReactionNone,
     counts |-> NilReactions, id |-> ""]

\* no goroutine
NoThread == ""

\* the zero value of sync.RWMutex
FreeMutex == [writer |-> NoThread, readers |-> {}, waiting |-> {}]

\* a Post value that stands for no post
NoPost ==
    [ID |-> "", UserID |-> NoUser, Content |-> "", Tags |-> <<>>, CreatedAt |-> 0,
     UpdatedAt |-> 0, Reactions |-> NilReactions, Comments |-> 0, Shares |-> 0,
     Visibility |-> ""]

\* the tables after AutoMigrate: posts by ID, media rows (post ID, media ID),
\* tag names, post_tags rows (post ID, tag), reaction rows
EmptyDB == [posts |-> EmptyMap, media |-> {}, tags |-> {}, postTags |-> {}, reactions |-> {}]

\* a goroutine that is in no call; the shape of every value of calls[t]:
\* op and pc are the call and the position in it, post, postID, userID and
\* kind its arguments, held the ID of the post whose returned copy the
\* goroutine keeps, read what its last read of that copy gave
IdleCall ==
    [pc |-> "idle", op |-> "none", post |-> NoPost, postID |-> "", userID |-> NoUser,
     kind |-> ReactionNone, held |-> "", read |-> "none"]

\* NewInMemoryPostStore
Init ==
    /\ posts = EmptyMap
    /\ reactions = EmptyMap
    /\ userPosts = [u \in Users |-> <<>>]
    /\ tagPosts = [t \in TagNames |-> <<>>]
    /\ clock = 0
    /\ ret = NoRet
    /\ mutex = FreeMutex
    /\ calls = [t \in Threads |-> IdleCall]
    /\ db = EmptyDB

(***************************************************************************)
(* Inputs                                                                  *)
(***************************************************************************)
\* tag lists of saved posts: none, one tag, two tags, a repeated tag
PostTagLists == {<<>>, <<"a">>, <<"b">>, <<"a", "b">>, <<"a", "a">>}

\* tag lists of filters: none, one tag, two tags in either order
FilterTagLists == {<<>>, <<"a">>, <<"b">>, <<"a", "b">>, <<"b", "a">>}

\* reaction counts a caller puts on a post before saving it
CountMaps == {EmptyMap} \cup {[k \in {ReactionLike} |-> c] : c \in 1..MaxCount}

ReactionInputs == {NilReactions} \cup {MakeReactions(m) : m \in CountMaps}

\* the posts callers save while the indices are exercised: any owner, any tags
IndexPosts ==
    [ID : PostIDs, UserID : Users, Content : {"c"}, Tags : PostTagLists,
     CreatedAt : {0}, UpdatedAt : {0}, Reactions : {NilReactions},
     Comments : {0}, Shares : {0}, Visibility : {"public"}]

\* the posts callers change in place and save again: one owner, any tags
AliasPosts ==
    [ID : PostIDs, UserID : {"u1"}, Content : {"c"}, Tags : PostTagLists,
     CreatedAt : {0}, UpdatedAt : {0}, Reactions : {NilReactions},
     Comments : {0}, Shares : {0}, Visibility : {"public"}]

\* the posts callers save while the reaction ledger is exercised: one ID,
\* one owner, any counts
ReactionPosts ==
    [ID : {"p1"}, UserID : {"u1"}, Content : {"c"}, Tags : {<<"a">>},
     CreatedAt : {0}, UpdatedAt : {0}, Reactions : ReactionInputs,
     Comments : {0}, Shares : {0}, Visibility : {"public"}]

\* the posts callers save while filters and pages are exercised: one owner,
\* three creation times, two visibilities
QueryPosts ==
    [ID : PostIDs, UserID : {"u1"}, Content : {"c"}, Tags : {<<>>},
     CreatedAt : {1, 2, 3}, UpdatedAt : {3}, Reactions : {NilReactions},
     Comments : {0}, Shares : {0}, Visibility : {"public", "private"}]

\* reaction counts of the posts that are sorted: none, or one of two kinds each
SortReactions ==
    {NilReactions, MakeReactions([k \in {ReactionLike, ReactionLove} |-> 1])}

\* the posts callers save while the sort keys are exercised: every key
\* takes two values
SortPosts ==
    [ID : PostIDs, UserID : {"u1"}, Content : {"c"}, Tags : {<<>>},
     CreatedAt : {1, 2}, UpdatedAt : {1, 2}, Reactions : SortReactions,
     Comments : {0, 1}, Shares : {0, 1}, Visibility : {"public"}]

\* the posts callers save while the trending list is exercised: two
\* visibilities, two creation times, every part of the engagement in two
\* values
TrendingPosts ==
    [ID : PostIDs, UserID : {"u1"}, Content : {"c"}, Tags : {<<>>},
     CreatedAt : {1, 2}, UpdatedAt : {2}, Reactions : SortReactions,
     Comments : {0, 1}, Shares : {0, 1}, Visibility : {"public", "private"}]

\* the posts callers save while the feed is exercised: three visibilities,
\* three creation times
FeedPosts ==
    [ID : PostIDs, UserID : Users, Content : {"c"}, Tags : {<<>>},
     CreatedAt : {1, 2, 3}, UpdatedAt : {3}, Reactions : {NilReactions},
     Comments : {0}, Shares : {0}, Visibility : {"public", "private", "friends"}]

\* the posts callers hand to the post manager: with or without an ID and a
\* user, two contents; the manager sets the times
ManagerPosts ==
    [ID : {"p1", ""}, UserID : Users \cup {NoUser}, Content : {"c", "d"}, Tags : {<<>>},
     CreatedAt : {0}, UpdatedAt : {0}, Reactions : {NilReactions},
     Comments : {0}, Shares : {0}, Visibility : {"public"}]

\* the posts callers save in the store directly while the manager is
\* exercised: the caller sets the creation time
DirectPosts ==
    [ID : {"p1"}, UserID : Users, Content : {"c", "d"}, Tags : {<<>>},
     CreatedAt : {0, 1}, UpdatedAt : {1}, Reactions : {NilReactions},
     Comments : {0}, Shares : {0}, Visibility : {"public"}]

\* the posts callers save while returned posts are written to: one tag, no
\* reaction map or a map with one count
CopyPosts ==
    [ID : PostIDs, UserID : {"u1"}, Content : {"c"}, Tags : {<<"a">>},
     CreatedAt : {0}, UpdatedAt : {0},
     Reactions : {NilReactions, MakeReactions([k \in {ReactionLike} |-> 1])},
     Comments : {0}, Shares : {0}, Visibility : {"public"}]

\* the posts goroutines save while the lock is exercised: one ID, one
\* owner, one tag, an empty reaction map
LockPosts ==
    [ID : {"p1"}, UserID : {"u1"}, Content : {"c"}, Tags : {<<"a">>},
     CreatedAt : {0}, UpdatedAt : {0}, Reactions : {MakeReactions(EmptyMap)},
     Comments : {0}, Shares : {0}, Visibility : {"public"}]

\* the posts saved to GormPostStore
GormPosts ==
    [ID : {"p1"}, UserID : {"u1", "u2"}, Content : {"c", "d"}, Tags : {<<>>, <<"a">>},
     Media : {{}, {"m1"}}, Reactions : {NilReactions, MakeReactions([k \in {ReactionLike} |-> 1])},
     CreatedAt : {0}, UpdatedAt : {0}, Comments : {0}, Shares : {0}, Visibility : {"public"}]

\* those of them without media and tags
GormPlainPosts == {post \in GormPosts : post.Media = {} /\ post.Tags = <<>>}

\* the posts saved to both stores, and the filters both are asked with
EquivPosts ==
    [ID : PostIDs, UserID : {"u1"}, Content : {"c"}, Tags : {<<>>}, Media : {{}},
     Reactions : {NilReactions}, CreatedAt : {1, 2}, UpdatedAt : {1}, Comments : {0},
     Shares : {0, 1}, Visibility : {"public"}]

EquivFilters ==
    {[NoFilter EXCEPT !.SortBy = sb, !.SortOrder = so, !.HasTimeRange = tr,
                      !.Start = 1, !.End = 3, !.Limit = l] :
        sb \in {"created_at", "shares", "reactions"}, so \in {"", "asc", "desc"},
        tr \in BOOLEAN, l \in {0, 1}}

\* new posts that carry reaction counts: none, one kind, two kinds at once
SuppliedCounts ==
    {EmptyMap, [k \in {ReactionLike} |-> 1], [k \in {ReactionLove} |-> 1],
     [k \in {ReactionLike, ReactionLove} |-> 1], [k \in {ReactionLike} |-> MaxCount + 1]}

CountedPosts ==
    [ID : PostIDs, UserID : {"u1"}, Content : {"c", "d"}, Tags : {<<>>}, Media : {{}},
     Reactions : {MakeReactions(m) : m \in SuppliedCounts}, CreatedAt : {0}, UpdatedAt : {0},
     Comments : {0}, Shares : {0}, Visibility : {"public"}]

(***************************************************************************)
(* Index maintenance                                                       *)
(***************************************************************************)
\* for _, tag := range post.Tags { s.tagPosts[tag] = append(s.tagPosts[tag], post.ID) }
RECURSIVE AppendTagRefs(_, _, _)
AppendTagRefs(tp, tags, id) ==
    IF tags = <<>> THEN tp
    ELSE AppendTagRefs([tp EXCEPT ![Head(tags)] = Append(@, id)], Tail(tags), id)

\* for each tag of the list, drop the first occurrence of id from the tag's index
RECURSIVE RemoveTagRefs(_, _, _)
RemoveTagRefs(tp, tags, id) ==
    IF tags = <<>> THEN tp
    ELSE RemoveTagRefs([tp EXCEPT ![Head(tags)] = RemoveFirst(@, id)], Tail(tags), id)

\* for each tag of the list, append id to the tag's index unless it is there
RECURSIVE AddTagRefs(_, _, _)
AddTagRefs(tp, tags, id) ==
    IF tags = <<>> THEN tp
    ELSE AddTagRefs([tp EXCEPT ![Head(tags)] =
                        IF id \in Elems(@) THEN @ ELSE Append(@, id)],
                    Tail(tags), id)

(***************************************************************************)
(* SavePost, DeletePost, GetPost                                           *)
(***************************************************************************)
\* SavePost(ctx, post).  The store keeps the caller's pointer, so when the
\* caller passes the object it saved before (aliased), s.posts[post.ID] is
\* that same object and oldPost already carries the caller's new field values.
StorePost(post, aliased) ==
    /\ aliased => post.ID \in DOMAIN posts
    /\ IF post.ID \notin DOMAIN posts
       THEN /\ posts' = MapPut(posts, post.ID, post)
            /\ userPosts' = [userPosts EXCEPT ![post.UserID] = Append(@, post.ID)]
            /\ tagPosts' = AppendTagRefs(tagPosts, post.Tags, post.ID)
       ELSE LET oldPost == IF aliased THEN post ELSE posts[post.ID]
            IN  /\ tagPosts' = AddTagRefs(RemoveTagRefs(tagPosts, oldPost.Tags, post.ID),
                                          post.Tags, post.ID)
                /\ posts' = MapPut(posts, post.ID, post)
                /\ UNCHANGED userPosts
    /\ UNCHANGED reactions

\* a caller's SavePost call: it returns nil
SavePost(post, aliased) ==
    /\ StorePost(post, aliased)
    /\ ret' = [NoRet EXCEPT !.op = "SavePost"]
    /\ UNCHANGED <<clock, conc, db>>

\* the number of positions of a list that hold x
Count(s, x) == Cardinality({i \in 1..Len(s) : s[i] = x})

\* stale index entries pile up without limit when an ID is deleted and saved
\* again, so a new ID is only saved while the lists it is appended to are
\* short
RefsBounded(post) ==
    post.ID \notin DOMAIN posts =>
        /\ Len(userPosts[post.UserID]) < MaxRefs
        /\ \A tag \in Elems(post.Tags) :
              Len(tagPosts[tag]) + Count(post.Tags, tag) <= MaxRefs

\* a caller saves a Post value the store has not seen
SaveNewObject(inputs) == \E post \in inputs : RefsBounded(post) /\ SavePost(post, FALSE)

\* a caller changes fields of the Post object it saved before and saves it
\* again; the Reactions map of the object is the one the store has updated
SaveSameObject(inputs) ==
    \E post \in inputs :
        /\ post.ID \in DOMAIN posts
        /\ SavePost([post EXCEPT !.Reactions = posts[post.ID].Reactions], TRUE)

\* the deletion without the post.UserID != userID test
DeletePostAnyUser(postID, userID) ==
    /\ IF postID \notin DOMAIN posts
       THEN /\ ret' = [NoRet EXCEPT !.op = "DeletePost", !.err = ErrPostNotFound]
            /\ UNCHANGED store
       ELSE /\ userPosts' = [userPosts EXCEPT ![userID] = RemoveFirst(@, postID)]
            /\ tagPosts' = RemoveTagRefs(tagPosts, posts[postID].Tags, postID)
            /\ reactions' = MapDelete(reactions, postID)
            /\ posts' = MapDelete(posts, postID)
            /\ ret' = [NoRet EXCEPT !.op = "DeletePost"]
    /\ UNCHANGED <<clock, conc, db>>

DeletePost(postID, userID) ==
    /\ IF postID \notin DOMAIN posts
       THEN /\ ret' = [NoRet EXCEPT !.op = "DeletePost", !.err = ErrPostNotFound]
            /\ UNCHANGED store
       ELSE IF posts[postID].UserID # userID
       THEN /\ ret' = [NoRet EXCEPT !.op = "DeletePost", !.err = ErrPermissionDenied]
            /\ UNCHANGED store
       ELSE /\ userPosts' = [userPosts EXCEPT ![userID] = RemoveFirst(@, postID)]
            /\ tagPosts' = RemoveTagRefs(tagPosts, posts[postID].Tags, postID)
            /\ reactions' = MapDelete(reactions, postID)
            /\ posts' = MapDelete(posts, postID)
            /\ ret' = [NoRet EXCEPT !.op = "DeletePost"]
    /\ UNCHANGED <<clock, conc, db>>

\* GetPost(ctx, postID): list holds the returned copy
GetPost(postID) ==
    /\ IF postID \notin DOMAIN posts
       THEN ret' = [NoRet EXCEPT !.op = "GetPost", !.err = ErrPostNotFound]
       ELSE ret' = [NoRet EXCEPT !.op = "GetPost", !.found = TRUE, !.list = <<posts[postID]>>]
    /\ UNCHANGED <<store, clock, conc, db>>

(***************************************************************************)
(* Reaction ledger                                                         *)
(***************************************************************************)
\* the range check without its lower end: ReactionNone passes
InvalidKindAboveOnly(reactionType) == reactionType > ReactionAngry

\* reactionType <= ReactionNone || reactionType > ReactionAngry
InvalidKind(reactionType) == reactionType <= ReactionNone \/ reactionType > ReactionAngry

HasMap(postID) == postID \in DOMAIN reactions

\* s.reactions[postID][userID] exists
HasReaction(postID, userID) ==
    HasMap(postID) /\ userID \in DOMAIN reactions[postID]

\* the change of kind without the oldCount > 0 test
ChangeCountNoFloor(r, old, new) ==
    LET m1 == MapPut(r.m, old, MapGet(r.m, old) - 1)
    IN  MakeReactions(MapPut(m1, new, MapGet(m1, new) + 1))

\* post.Reactions after a user's reaction changes from kind old to kind new
ChangeCount(r, old, new) ==
    LET m0 == r.m      \* a nil map is replaced by an empty one
        oldCount == MapGet(m0, old)
        m1 == IF oldCount > 0 THEN MapPut(m0, old, oldCount - 1) ELSE m0
    IN  MakeReactions(MapPut(m1, new, MapGet(m1, new) + 1))

\* post.Reactions after a user without a reaction adds one of the kind
AddCount(r, kind) == MakeReactions(MapPut(r.m, kind, MapGet(r.m, kind) + 1))

\* post.Reactions after a user's reaction of the kind is removed
RemoveCount(r, kind) ==
    IF ~r.isNil /\ MapGet(r.m, kind) > 0
    THEN MakeReactions(MapPut(r.m, kind, MapGet(r.m, kind) - 1))
    ELSE r

\* a SaveReaction that stamps the row again when the kind is the same
SaveReactionRestamps(postID, userID, reactionType) ==
    LET call == [NoRet EXCEPT !.op = "SaveReaction"]
    IN
    /\ IF postID \notin DOMAIN posts
       THEN /\ ret' = [call EXCEPT !.err = ErrPostNotFound]
            /\ UNCHANGED store
       ELSE IF InvalidKind(reactionType)
       THEN /\ ret' = [call EXCEPT !.err = ErrInvalidReaction]
            /\ UNCHANGED store
       ELSE LET post == posts[postID]
                ledger == IF HasMap(postID) THEN reactions[postID] ELSE EmptyMap
            IN  /\ IF userID \in DOMAIN ledger
                   THEN IF ledger[userID].ReactionType # reactionType
                        THEN /\ posts' = MapPut(posts, postID,
                                    [post EXCEPT !.Reactions =
                                        ChangeCount(@, ledger[userID].ReactionType, reactionType)])
                             /\ reactions' = MapPut(reactions, postID,
                                    MapPut(ledger, userID,
                                           [ReactionType |-> reactionType, CreatedAt |-> clock]))
                        ELSE /\ posts' = posts
                             /\ reactions' = MapPut(reactions, postID,
                                    MapPut(ledger, userID,
                                           [ReactionType |-> reactionType, CreatedAt |-> clock]))
                   ELSE /\ reactions' = MapPut(reactions, postID,
                                MapPut(ledger, userID,
                                       [ReactionType |-> reactionType, CreatedAt |-> clock]))
                        /\ posts' = MapPut(posts, postID,
                                [post EXCEPT !.Reactions = AddCount(@, reactionType)])
                /\ ret' = call
                /\ UNCHANGED <<userPosts, tagPosts>>
    /\ UNCHANGED <<clock, conc, db>>

\* SaveReaction(ctx, postID, userID, reactionType)
SaveReaction(postID, userID, reactionType) ==
    LET call == [NoRet EXCEPT !.op = "SaveReaction"]
    IN
    /\ IF postID \notin DOMAIN posts
       THEN /\ ret' = [call EXCEPT !.err = ErrPostNotFound]
            /\ UNCHANGED store
       ELSE IF InvalidKind(reactionType)
       THEN /\ ret' = [call EXCEPT !.err = ErrInvalidReaction]
            /\ UNCHANGED store
       ELSE LET post == posts[postID]
                ledger == IF HasMap(postID) THEN reactions[postID] ELSE EmptyMap
            IN  /\ IF userID \in DOMAIN ledger
                   THEN IF ledger[userID].ReactionType # reactionType
                        THEN /\ posts' = MapPut(posts, postID,
                                    [post EXCEPT !.Reactions =
                                        ChangeCount(@, ledger[userID].ReactionType, reactionType)])
                             /\ reactions' = MapPut(reactions, postID,
                                    MapPut(ledger, userID,
                                           [ReactionType |-> reactionType, CreatedAt |-> clock]))
                        ELSE /\ posts' = posts
                             /\ reactions' = MapPut(reactions, postID, ledger)
                   ELSE /\ reactions' = MapPut(reactions, postID,
                                MapPut(ledger, userID,
                                       [ReactionType |-> reactionType, CreatedAt |-> clock]))
                        /\ posts' = MapPut(posts, postID,
                                [post EXCEPT !.Reactions = AddCount(@, reactionType)])
                /\ ret' = call
                /\ UNCHANGED <<userPosts, tagPosts>>
    /\ UNCHANGED <<clock, conc, db>>

\* DeleteReaction without the test of the kind: the user's reaction is
\* removed whatever kind is passed
DeleteReactionAnyKind(postID, userID, reactionType) ==
    LET call == [NoRet EXCEPT !.op = "DeleteReaction"]
    IN
    /\ IF postID \notin DOMAIN posts
       THEN /\ ret' = [call EXCEPT !.err = ErrPostNotFound]
            /\ UNCHANGED store
       ELSE IF ~HasMap(postID)
       THEN /\ ret' = call
            /\ UNCHANGED store
       ELSE IF userID \notin DOMAIN reactions[postID]
       THEN /\ ret' = call
            /\ UNCHANGED store
       ELSE /\ reactions' = MapPut(reactions, postID, MapDelete(reactions[postID], userID))
            /\ posts' = MapPut(posts, postID,
                    [posts[postID] EXCEPT !.Reactions = RemoveCount(@, reactionType)])
            /\ ret' = call
            /\ UNCHANGED <<userPosts, tagPosts>>
    /\ UNCHANGED <<clock, conc, db>>

DeleteReaction(postID, userID, reactionType) ==
    LET call == [NoRet EXCEPT !.op = "DeleteReaction"]
    IN
    /\ IF postID \notin DOMAIN posts
       THEN /\ ret' = [call EXCEPT !.err = ErrPostNotFound]
            /\ UNCHANGED store
       ELSE IF ~HasMap(postID)
       THEN /\ ret' = call
            /\ UNCHANGED store
       ELSE IF \/ userID \notin DOMAIN reactions[postID]
               \/ reactions[postID][userID].ReactionType # reactionType
       THEN /\ ret' = call
            /\ UNCHANGED store
       ELSE /\ reactions' = MapPut(reactions, postID, MapDelete(reactions[postID], userID))
            /\ posts' = MapPut(posts, postID,
                    [posts[postID] EXCEPT !.Reactions = RemoveCount(@, reactionType)])
            /\ ret' = call
            /\ UNCHANGED <<userPosts, tagPosts>>
    /\ UNCHANGED <<clock, conc, db>>

\* what GetUserReaction returns for a stored post: the user's kind, or
\* ReactionNone for the nil result
UserReactionOf(postID, userID) ==
    IF HasReaction(postID, userID)
    THEN reactions[postID][userID].ReactionType
    ELSE ReactionNone

GetUserReaction(postID, userID) ==
    LET call == [NoRet EXCEPT !.op = "GetUserReaction"]
    IN
    /\ IF postID \notin DOMAIN posts
       THEN ret' = [call EXCEPT !.err = ErrPostNotFound]
       ELSE IF ~HasReaction(postID, userID)
       THEN ret' = call
       ELSE ret' = [call EXCEPT !.found = TRUE,
                                !.value = reactions[postID][userID].ReactionType]
    /\ UNCHANGED <<store, clock, conc, db>>

(***************************************************************************)
(* ListPosts                                                               *)
(***************************************************************************)
\* candidateIDs after the user-filter block: nil without a user filter
UserCandidates(filter) ==
    IF filter.UserID # NoUser
    THEN [isNil |-> FALSE, ids |-> Elems(userPosts[filter.UserID])]
    ELSE [isNil |-> TRUE, ids |-> {}]

\* tagCandidates: a post of the i-th tag's index is taken when i is the
\* first position or the post is in candidateIDs (a nil map holds nothing)
TagCandidates(filter) ==
    LET candidateIDs == UserCandidates(filter)
    IN  {pid \in PostIDs :
            \E i \in 1..Len(filter.Tags) :
                /\ pid \in Elems(tagPosts[filter.Tags[i]])
                /\ (i = 1 \/ pid \in candidateIDs.ids)}

\* candidateIDs after both filter blocks
CandidateIDs(filter) ==
    IF Len(filter.Tags) > 0
    THEN [isNil |-> FALSE, ids |-> TagCandidates(filter)]
    ELSE UserCandidates(filter)

\* the filters with a time range that takes in its two ends
PassesFiltersInclusive(post, filter) ==
    /\ ~(filter.Visibility # "" /\ post.Visibility # filter.Visibility)
    /\ filter.HasTimeRange =>
          ~(~(post.CreatedAt >= filter.Start) \/ ~(post.CreatedAt <= filter.End))

\* the visibility and time range filters (strictly after Start, strictly before End)
PassesFilters(post, filter) ==
    /\ ~(filter.Visibility # "" /\ post.Visibility # filter.Visibility)
    /\ filter.HasTimeRange =>
          ~(~(post.CreatedAt > filter.Start) \/ ~(post.CreatedAt < filter.End))

\* the IDs of the posts appended to result
SelectedIDs(filter) ==
    LET candidateIDs == CandidateIDs(filter)
    IN  IF candidateIDs.isNil
        THEN {id \in DOMAIN posts : PassesFilters(posts[id], filter)}
        ELSE {id \in candidateIDs.ids :
                 id \in DOMAIN posts /\ PassesFilters(posts[id], filter)}

\* a Go map is ranged over in any order: all arrangements of a set of IDs
Orders(S) ==
    {p \in [1..Cardinality(S) -> S] : \A i, j \in 1..Cardinality(S) : i # j => p[i] # p[j]}

\* the comparison without the inversion for "desc"
LessAscending(a, b, filter) ==
    CASE filter.SortBy = "created_at" -> a.CreatedAt < b.CreatedAt
      [] filter.SortBy = "updated_at" -> a.UpdatedAt < b.UpdatedAt
      [] filter.SortBy = "reactions" -> sumReactions(a.Reactions) < sumReactions(b.Reactions)
      [] filter.SortBy = "comments" -> a.Comments < b.Comments
      [] filter.SortBy = "shares" -> a.Shares < b.Shares
      [] OTHER -> a.CreatedAt < b.CreatedAt

\* the comparison function handed to sort.Slice
Less(a, b, filter) ==
    LET less ==
          CASE filter.SortBy = "created_at" -> a.CreatedAt < b.CreatedAt
            [] filter.SortBy = "updated_at" -> a.UpdatedAt < b.UpdatedAt
            [] filter.SortBy = "reactions" -> sumReactions(a.Reactions) < sumReactions(b.Reactions)
            [] filter.SortBy = "comments" -> a.Comments < b.Comments
            [] filter.SortBy = "shares" -> a.Shares < b.Shares
            [] OTHER -> a.CreatedAt < b.CreatedAt
    IN  IF filter.SortOrder = "desc" THEN ~less ELSE less

\* what sort.Slice may leave: no pair is out of order; pairs the comparison
\* does not order one way only (ties) stand in any order
SortedSlice(result, filter) ==
    \A i, j \in 1..Len(result) :
        i < j => (Less(result[i], result[j], filter) \/ ~Less(result[j], result[i], filter))

\* the lists result can hold before pagination
Results(filter) ==
    LET all == {[i \in DOMAIN p |-> posts[p[i]]] : p \in Orders(SelectedIDs(filter))}
    IN  IF filter.SortBy # "" THEN {r \in all : SortedSlice(r, filter)} ELSE all

\* the page cut from the start of result instead of from offset
PaginateFromStart(result, limit, offset) ==
    IF limit > 0
    THEN LET end == IF offset + limit > Len(result) THEN Len(result) ELSE offset + limit
         IN  IF offset < Len(result) THEN SubSeq(result, 1, end) ELSE <<>>
    ELSE result

\* result[limit/offset]; the slice expression panics on a negative offset
Paginate(result, limit, offset) ==
    IF limit > 0
    THEN LET end == IF offset + limit > Len(result) THEN Len(result) ELSE offset + limit
         IN  IF offset < Len(result) THEN SubSeq(result, offset + 1, end) ELSE <<>>
    ELSE result

PaginatePanics(result, limit, offset) == limit > 0 /\ offset < Len(result) /\ offset < 0

ErrPanic == "panic: slice bounds out of range"

ListPosts(filter) ==
    /\ \E result \in Results(filter) :
          ret' = [NoRet EXCEPT
                    !.op = "ListPosts",
                    !.err = IF PaginatePanics(result, filter.Limit, filter.Offset)
                            THEN ErrPanic ELSE ErrNil,
                    !.list = IF PaginatePanics(result, filter.Limit, filter.Offset)
                             THEN <<>> ELSE Paginate(result, filter.Limit, filter.Offset)]
    /\ UNCHANGED <<store, clock, conc, db>>

\* the filters callers pass while the indices are exercised: a user, a tag
\* list, or both
FilterInputs ==
    {[NoFilter EXCEPT !.UserID = u, !.Tags = t] :
        u \in Users \cup {NoUser}, t \in FilterTagLists}

\* the filters callers pass while the time range and visibility filters
\* are exercised
QueryFilters ==
    {[NoFilter EXCEPT !.UserID = u, !.HasTimeRange = h,
                      !.Start = IF h THEN 1 ELSE 0, !.End = IF h THEN 3 ELSE 0,
                      !.Visibility = v, !.SortBy = sb] :
        u \in Users \cup {NoUser}, h \in BOOLEAN, v \in {"", "public", "private"},
        sb \in {"", "created_at"}}

\* the filters callers pass while the sort keys are exercised: the five
\* keys and an unknown one, in every order
SortFilters ==
    {[NoFilter EXCEPT !.SortBy = sb, !.SortOrder = so] :
        sb \in {"created_at", "updated_at", "reactions", "comments", "shares", "likes"},
        so \in {"", "asc", "desc"}}

\* the filters callers pass while the pages are exercised
PageFilters ==
    {[NoFilter EXCEPT !.Visibility = v, !.Limit = l, !.Offset = o, !.SortBy = sb] :
        v \in {"", "public"}, l \in {-1, 0, 1, 2}, o \in {-1, 0, 1, 2},
        sb \in {"", "created_at"}}

(***************************************************************************)
(* GetUserFeed and GetTrendingPosts                                        *)
(***************************************************************************)
\* the posts appended to result: the stored posts of visibility "public"
PublicIDs == {id \in DOMAIN posts : posts[id].Visibility = "public"}

\* the engagement without the shares
engagementNoShares(post) == sumReactions(post.Reactions) + post.Comments

\* sumReactions(post.Reactions) + post.Comments + post.Shares
engagement(post) == sumReactions(post.Reactions) + post.Comments + post.Shares

\* result after sort.Slice by engagement, highest first; posts of the same
\* engagement stand in any order
TrendingResults ==
    {r \in {[i \in DOMAIN p |-> posts[p[i]]] : p \in Orders(PublicIDs)} :
        \A i, j \in DOMAIN r : i < j => ~(engagement(r[j]) > engagement(r[i]))}

\* GetTrendingPosts(ctx, limit)
GetTrendingPosts(limit) ==
    /\ \E result \in TrendingResults :
          ret' = [NoRet EXCEPT
                    !.op = "GetTrendingPosts",
                    !.list = IF limit > 0 /\ limit < Len(result)
                             THEN SubSeq(result, 1, limit) ELSE result]
    /\ UNCHANGED <<store, clock, conc, db>>

\* result after sort.Slice by creation time, newest first; posts of the same
\* creation time stand in any order
FeedResults ==
    {r \in {[i \in DOMAIN p |-> posts[p[i]]] : p \in Orders(PublicIDs)} :
        \A i, j \in DOMAIN r : i < j => ~(r[j].CreatedAt > r[i].CreatedAt)}

\* GetUserFeed(ctx, userID, limit, offset); userID is not read
GetUserFeed(userID, limit, offset) ==
    /\ \E result \in FeedResults :
          ret' = [NoRet EXCEPT
                    !.op = "GetUserFeed",
                    !.err = IF PaginatePanics(result, limit, offset)
                            THEN ErrPanic ELSE ErrNil,
                    !.list = IF PaginatePanics(result, limit, offset)
                             THEN <<>> ELSE Paginate(result, limit, offset)]
    /\ UNCHANGED <<store, clock, conc, db>>

\* the pages callers ask of GetUserFeed
FeedLimits == {0, 1, 2}

FeedOffsets == {-1, 0, 1, 2}

\* the limits callers pass to GetTrendingPosts
TrendingLimits == {-1, 0, 1, 2}

(***************************************************************************)
(* Reaction queries                                                        *)
(***************************************************************************)
\* a nil *ReactionType: no filter on the kind
NoKindFilter == -1

\* the users appended to userIDs
UsersReacted(postID, reactionType) ==
    {userID \in DOMAIN reactions[postID] :
        reactionType = NoKindFilter \/ reactions[postID][userID].ReactionType = reactionType}

\* a sort by reaction time that puts the oldest first
SortedUserIDsOldestFirst(postID, reactionType) ==
    {p \in Orders(UsersReacted(postID, reactionType)) :
        \A i, j \in DOMAIN p :
            i < j => ~(reactions[postID][p[j]].CreatedAt < reactions[postID][p[i]].CreatedAt)}

\* userIDs after sort.Slice by reaction time, most recent first; reactions of
\* the same time stand in any order
SortedUserIDs(postID, reactionType) ==
    {p \in Orders(UsersReacted(postID, reactionType)) :
        \A i, j \in DOMAIN p :
            i < j => ~(reactions[postID][p[j]].CreatedAt > reactions[postID][p[i]].CreatedAt)}

\* the call that answers an unknown post like a post without reactions
GetReactedUsersNoPostCheck(postID, reactionType, limit, offset) ==
    LET call == [NoRet EXCEPT !.op = "GetReactedUsers"]
    IN  /\ IF ~HasMap(postID)
           THEN ret' = [call EXCEPT !.found = TRUE]
           ELSE \E userIDs \in SortedUserIDs(postID, reactionType) :
                   IF PaginatePanics(userIDs, limit, offset)
                   THEN ret' = [call EXCEPT !.err = ErrPanic]
                   ELSE ret' = [call EXCEPT
                                  !.found = (limit > 0 \/ userIDs # <<>>),
                                  !.list = Paginate(userIDs, limit, offset)]
        /\ UNCHANGED <<store, clock, conc, db>>

\* GetReactedUsers(ctx, postID, reactionType, limit, offset): list holds the
\* returned user IDs, found tells a non-nil slice from a nil one
GetReactedUsers(postID, reactionType, limit, offset) ==
    LET call == [NoRet EXCEPT !.op = "GetReactedUsers"]
    IN  /\ IF postID \notin DOMAIN posts
           THEN ret' = [call EXCEPT !.err = ErrPostNotFound]
           ELSE IF ~HasMap(postID)
           THEN ret' = [call EXCEPT !.found = TRUE]
           ELSE \E userIDs \in SortedUserIDs(postID, reactionType) :
                   IF PaginatePanics(userIDs, limit, offset)
                   THEN ret' = [call EXCEPT !.err = ErrPanic]
                   ELSE ret' = [call EXCEPT
                                  !.found = (limit > 0 \/ userIDs # <<>>),
                                  !.list = Paginate(userIDs, limit, offset)]
        /\ UNCHANGED <<store, clock, conc, db>>

\* a GetReactionCounts that gives every valid kind an entry
GetReactionCountsAllKinds(postID) ==
    LET call == [NoRet EXCEPT !.op = "GetReactionCounts"]
    IN  /\ IF postID \notin DOMAIN posts
           THEN ret' = [call EXCEPT !.err = ErrPostNotFound]
           ELSE ret' = [call EXCEPT !.found = TRUE,
                                    !.counts = MakeReactions(
                                        [k \in ValidKinds |->
                                            MapGet(posts[postID].Reactions.m, k)])]
        /\ UNCHANGED <<store, clock, conc, db>>

\* GetReactionCounts(ctx, postID): counts holds the returned map, a copy of
\* the entries post.Reactions has (an empty map for a nil one)
GetReactionCounts(postID) ==
    LET call == [NoRet EXCEPT !.op = "GetReactionCounts"]
    IN  /\ IF postID \notin DOMAIN posts
           THEN ret' = [call EXCEPT !.err = ErrPostNotFound]
           ELSE ret' = [call EXCEPT !.found = TRUE,
                                    !.counts = MakeReactions(posts[postID].Reactions.m)]
        /\ UNCHANGED <<store, clock, conc, db>>

\* the users whose reactions are listed, and the pages asked of the list
ReactedUsers == {"u1", "u2"}
ReactedKinds == {NoKindFilter, ReactionLike}
ReactedLimits == {0, 1, 2}
ReactedOffsets == {0, 1}

\* the kind filters and the pages callers ask of GetReactedUsers
KindFilterInputs == {NoKindFilter, ReactionLike, ReactionLove}

PageLimits == {0, 1}

PageOffsets == {0, 1}

(***************************************************************************)
(* PostManagerImpl                                                         *)
(***************************************************************************)
ErrUserIDRequired == "user ID is required"

ErrPostIDRequired == "post ID is required"

ErrUnauthorized == "unauthorized to update this post"

\* time passes between calls
Tick ==
    /\ clock < MaxClock
    /\ clock' = clock + 1
    /\ UNCHANGED <<store, ret, conc, db>>

\* a CreatePost that keeps the times the caller's post carries
CreatePostCallerTimes(post) ==
    /\ IF post.UserID = NoUser
       THEN /\ ret' = [NoRet EXCEPT !.op = "CreatePost", !.err = ErrUserIDRequired]
            /\ UNCHANGED store
       ELSE \E id \in IF post.ID = "" THEN PostIDs \ DOMAIN posts ELSE {post.ID} :
               /\ RefsBounded([post EXCEPT !.ID = id])
               /\ StorePost([post EXCEPT
                               !.ID = id,
                               !.Reactions = IF @.isNil THEN MakeReactions(EmptyMap) ELSE @],
                            FALSE)
               /\ ret' = [NoRet EXCEPT !.op = "CreatePost", !.id = id]
    /\ UNCHANGED <<clock, conc, db>>

\* CreatePost(ctx, post): id holds the returned ID; uuid.New() gives an ID
\* no stored post has; a new ID is saved only while the index lists are short
CreatePost(post) ==
    /\ IF post.UserID = NoUser
       THEN /\ ret' = [NoRet EXCEPT !.op = "CreatePost", !.err = ErrUserIDRequired]
            /\ UNCHANGED store
       ELSE \E id \in IF post.ID = "" THEN PostIDs \ DOMAIN posts ELSE {post.ID} :
               /\ RefsBounded([post EXCEPT !.ID = id])
               /\ StorePost([post EXCEPT
                               !.ID = id, !.CreatedAt = clock, !.UpdatedAt = clock,
                               !.Reactions = IF @.isNil THEN MakeReactions(EmptyMap) ELSE @],
                            FALSE)
               /\ ret' = [NoRet EXCEPT !.op = "CreatePost", !.id = id]
    /\ UNCHANGED <<clock, conc, db>>

\* an UpdatePost that does not compare the owners
UpdatePostAnyUser(post) ==
    /\ IF post.ID = ""
       THEN /\ ret' = [NoRet EXCEPT !.op = "UpdatePost", !.err = ErrPostIDRequired]
            /\ UNCHANGED store
       ELSE IF post.ID \notin DOMAIN posts
       THEN /\ ret' = [NoRet EXCEPT !.op = "UpdatePost", !.err = ErrPostNotFound]
            /\ UNCHANGED store
       ELSE /\ StorePost([post EXCEPT !.UpdatedAt = clock,
                                      !.CreatedAt = posts[post.ID].CreatedAt],
                         FALSE)
            /\ ret' = [NoRet EXCEPT !.op = "UpdatePost"]
    /\ UNCHANGED <<clock, conc, db>>

\* UpdatePost(ctx, post) with a Post value of the caller's own
UpdatePost(post) ==
    /\ IF post.ID = ""
       THEN /\ ret' = [NoRet EXCEPT !.op = "UpdatePost", !.err = ErrPostIDRequired]
            /\ UNCHANGED store
       ELSE IF post.ID \notin DOMAIN posts
       THEN /\ ret' = [NoRet EXCEPT !.op = "UpdatePost", !.err = ErrPostNotFound]
            /\ UNCHANGED store
       ELSE LET existingPost == posts[post.ID]
            IN  IF existingPost.UserID # post.UserID
                THEN /\ ret' = [NoRet EXCEPT !.op = "UpdatePost", !.err = ErrUnauthorized]
                     /\ UNCHANGED store
                ELSE /\ StorePost([post EXCEPT !.UpdatedAt = clock,
                                               !.CreatedAt = existingPost.CreatedAt],
                                  FALSE)
                     /\ ret' = [NoRet EXCEPT !.op = "UpdatePost"]
    /\ UNCHANGED <<clock, conc, db>>

(***************************************************************************)
(* Callers that write to a returned post                                   *)
(***************************************************************************)
\* the calls that return posts
ReturningOps == {"GetPost", "ListPosts", "GetUserFeed", "GetTrendingPosts"}

\* the caller holds the posts the last call returned: ret.list[k] is
\* postCopy, made by `postCopy := *post`
HoldsReturned(k) ==
    /\ ret.op \in ReturningOps
    /\ k \in 1..Len(ret.list)
    /\ ret.list[k].ID \in DOMAIN posts

\* returned.Content = content: the string field belongs to the copy
WriteReturnedContent(k, content) ==
    /\ HoldsReturned(k)
    /\ ret' = [ret EXCEPT !.list[k].Content = content]
    /\ UNCHANGED <<store, clock, conc, db>>

\* returned.Tags[i] = tag: the copied slice header points at the backing
\* array of the stored post's Tags
WriteReturnedTag(k, i, tag) ==
    /\ HoldsReturned(k)
    /\ i \in 1..Len(ret.list[k].Tags)
    /\ ret' = [ret EXCEPT !.list[k].Tags[i] = tag]
    /\ posts' = [posts EXCEPT ![ret.list[k].ID].Tags[i] = tag]
    /\ UNCHANGED <<reactions, userPosts, tagPosts, clock, conc, db>>

\* returned.Reactions[kind] = count: the copied map value is the stored
\* post's map (a nil map cannot be written)
WriteReturnedReaction(k, kind, count) ==
    /\ HoldsReturned(k)
    /\ ~ret.list[k].Reactions.isNil
    /\ ret' = [ret EXCEPT !.list[k].Reactions.m = MapPut(@, kind, count)]
    /\ posts' = [posts EXCEPT ![ret.list[k].ID].Reactions.m = MapPut(@, kind, count)]
    /\ UNCHANGED <<reactions, userPosts, tagPosts, clock, conc, db>>

\* a write of a caller to a post it was returned
CallerWrites ==
    \E k \in 1..Cardinality(PostIDs) :
        \/ WriteReturnedContent(k, "d")
        \/ \E i \in 1..2 : WriteReturnedTag(k, i, "b")
        \/ \E count \in 0..MaxCount : WriteReturnedReaction(k, ReactionLike, count)

(***************************************************************************)
(* Callers that write to a post they saved                                 *)
(***************************************************************************)
\* s.posts[post.ID] = post keeps the caller's pointer: the stored post is the
\* object the caller saved, and the caller still holds it
HoldsSaved(postID) == postID \in DOMAIN posts

\* post.Content = content on the saved object
WriteSavedContent(postID, content) ==
    /\ HoldsSaved(postID)
    /\ posts' = [posts EXCEPT ![postID].Content = content]
    /\ UNCHANGED <<reactions, userPosts, tagPosts, clock, ret, conc, db>>

\* post.Visibility = visibility on the saved object
WriteSavedVisibility(postID, visibility) ==
    /\ HoldsSaved(postID)
    /\ posts' = [posts EXCEPT ![postID].Visibility = visibility]
    /\ UNCHANGED <<reactions, userPosts, tagPosts, clock, ret, conc, db>>

\* post.Tags = tags on the saved object
WriteSavedTags(postID, tags) ==
    /\ HoldsSaved(postID)
    /\ posts' = [posts EXCEPT ![postID].Tags = tags]
    /\ UNCHANGED <<reactions, userPosts, tagPosts, clock, ret, conc, db>>

\* post.Reactions[kind] = count on the saved object (a nil map cannot be
\* written)
WriteSavedReaction(postID, kind, count) ==
    /\ HoldsSaved(postID)
    /\ ~posts[postID].Reactions.isNil
    /\ posts' = [posts EXCEPT ![postID].Reactions.m = MapPut(@, kind, count)]
    /\ UNCHANGED <<reactions, userPosts, tagPosts, clock, ret, conc, db>>

\* a write of a caller to a post it saved, with no SavePost after it
SavedObjectWrites ==
    \E postID \in PostIDs :
        \/ WriteSavedContent(postID, "d")
        \/ WriteSavedVisibility(postID, "private")
        \/ WriteSavedTags(postID, <<"b">>)
        \/ \E count \in 0..MaxCount : WriteSavedReaction(postID, ReactionLike, count)

(***************************************************************************)
(* Goroutines and s.mutex                                                  *)
(***************************************************************************)
\* the calls that take s.mutex.Lock(); the others take s.mutex.RLock()
IsWrite(op) == op \in {"SavePost", "DeletePost", "SaveReaction"}

\* the calls goroutines make while the lock is exercised
LockCalls ==
    {[IdleCall EXCEPT !.op = "SavePost", !.post = post] : post \in LockPosts}
    \cup {[IdleCall EXCEPT !.op = "DeletePost", !.postID = "p1", !.userID = "u1"]}
    \cup {[IdleCall EXCEPT !.op = "SaveReaction", !.postID = "p1", !.userID = "u1",
                           !.kind = kind] : kind \in {ReactionLike, ReactionLove}}
    \cup {[IdleCall EXCEPT !.op = "GetPost", !.postID = "p1"]}

\* a goroutine enters a store method and reaches its Lock() or RLock(); a
\* goroutine blocked in Lock() keeps new readers out
EnterCall(t, call) ==
    /\ calls[t].pc = "idle"
    /\ calls' = [calls EXCEPT ![t] = [call EXCEPT !.pc = "lock", !.held = calls[t].held,
                                                  !.read = calls[t].read]]
    /\ mutex' = IF IsWrite(call.op) THEN [mutex EXCEPT !.waiting = @ \cup {t}] ELSE mutex
    /\ UNCHANGED <<store, clock, ret, db>>

\* a Lock() that does not wait
CanLockUnguarded == TRUE

\* Lock() returns when no goroutine holds the mutex
CanLock == mutex.writer = NoThread /\ mutex.readers = {}

\* RLock() returns when no goroutine holds the mutex for writing or is
\* blocked in Lock()
CanRLock == mutex.writer = NoThread /\ mutex.waiting = {}

\* s.mutex.Lock()
AcquireLock(t) ==
    /\ calls[t].pc = "lock"
    /\ IsWrite(calls[t].op)
    /\ CanLock
    /\ mutex' = [mutex EXCEPT !.writer = t, !.waiting = @ \ {t}]
    /\ calls' = [calls EXCEPT ![t].pc = "body"]
    /\ UNCHANGED <<store, clock, ret, db>>

\* s.mutex.RLock()
AcquireRLock(t) ==
    /\ calls[t].pc = "lock"
    /\ ~IsWrite(calls[t].op)
    /\ CanRLock
    /\ mutex' = [mutex EXCEPT !.readers = @ \cup {t}]
    /\ calls' = [calls EXCEPT ![t].pc = "body"]
    /\ UNCHANGED <<store, clock, ret, db>>

\* SavePost up to its first write: s.posts[post.ID] = post of a new post, the
\* tag index of a stored one
SavePostFirst(t) ==
    LET post == calls[t].post
    IN  /\ calls[t].pc = "body"
        /\ calls[t].op = "SavePost"
        /\ IF post.ID \notin DOMAIN posts
           THEN /\ posts' = MapPut(posts, post.ID, post)
                /\ calls' = [calls EXCEPT ![t].pc = "inserted"]
                /\ UNCHANGED tagPosts
           ELSE /\ tagPosts' = AddTagRefs(RemoveTagRefs(tagPosts, posts[post.ID].Tags, post.ID),
                                          post.Tags, post.ID)
                /\ calls' = [calls EXCEPT ![t].pc = "reindexed"]
                /\ UNCHANGED posts
        /\ UNCHANGED <<reactions, userPosts, clock, ret, mutex, db>>

\* the rest of SavePost: the two indices of a new post, s.posts[post.ID] = post
\* of a stored one.  A goroutine that keeps a copy of the replaced post no
\* longer shares memory with the store.
SavePostSecond(t) ==
    LET post == calls[t].post
    IN  /\ calls[t].op = "SavePost"
        /\ IF calls[t].pc = "inserted"
           THEN /\ userPosts' = [userPosts EXCEPT ![post.UserID] = Append(@, post.ID)]
                /\ tagPosts' = AppendTagRefs(tagPosts, post.Tags, post.ID)
                /\ UNCHANGED posts
           ELSE /\ calls[t].pc = "reindexed"
                /\ posts' = MapPut(posts, post.ID, post)
                /\ UNCHANGED <<userPosts, tagPosts>>
        /\ calls' = [u \in Threads |->
                        IF u = t THEN [calls[u] EXCEPT !.pc = "unlock"]
                        ELSE IF calls[u].held = post.ID THEN [calls[u] EXCEPT !.held = ""]
                        ELSE calls[u]]
        /\ ret' = [NoRet EXCEPT !.op = "SavePost"]
        /\ UNCHANGED <<reactions, clock, mutex, db>>

\* DeletePost up to the removal from the indices
DeletePostFirst(t) ==
    LET postID == calls[t].postID
        userID == calls[t].userID
    IN  /\ calls[t].pc = "body"
        /\ calls[t].op = "DeletePost"
        /\ IF postID \notin DOMAIN posts
           THEN /\ ret' = [NoRet EXCEPT !.op = "DeletePost", !.err = ErrPostNotFound]
                /\ calls' = [calls EXCEPT ![t].pc = "unlock"]
                /\ UNCHANGED <<userPosts, tagPosts>>
           ELSE IF posts[postID].UserID # userID
           THEN /\ ret' = [NoRet EXCEPT !.op = "DeletePost", !.err = ErrPermissionDenied]
                /\ calls' = [calls EXCEPT ![t].pc = "unlock"]
                /\ UNCHANGED <<userPosts, tagPosts>>
           ELSE /\ userPosts' = [userPosts EXCEPT ![userID] = RemoveFirst(@, postID)]
                /\ tagPosts' = RemoveTagRefs(tagPosts, posts[postID].Tags, postID)
                /\ calls' = [calls EXCEPT ![t].pc = "unindexed"]
                /\ UNCHANGED ret
        /\ UNCHANGED <<posts, reactions, clock, mutex, db>>

\* the rest of DeletePost: delete(s.reactions, postID); delete(s.posts, postID)
DeletePostSecond(t) ==
    LET postID == calls[t].postID
    IN  /\ calls[t].pc = "unindexed"
        /\ calls[t].op = "DeletePost"
        /\ reactions' = MapDelete(reactions, postID)
        /\ posts' = MapDelete(posts, postID)
        /\ calls' = [u \in Threads |->
                        IF u = t THEN [calls[u] EXCEPT !.pc = "unlock"]
                        ELSE IF calls[u].held = postID THEN [calls[u] EXCEPT !.held = ""]
                        ELSE calls[u]]
        /\ ret' = [NoRet EXCEPT !.op = "DeletePost"]
        /\ UNCHANGED <<userPosts, tagPosts, clock, mutex, db>>

\* SaveReaction up to its first write: the ledger row of a user without a
\* reaction, the counts of the post for a user who changes the kind
SaveReactionFirst(t) ==
    LET postID == calls[t].postID
        userID == calls[t].userID
        reactionType == calls[t].kind
        call == [NoRet EXCEPT !.op = "SaveReaction"]
        ledger == IF HasMap(postID) THEN reactions[postID] ELSE EmptyMap
    IN  /\ calls[t].pc = "body"
        /\ calls[t].op = "SaveReaction"
        /\ IF postID \notin DOMAIN posts
           THEN /\ ret' = [call EXCEPT !.err = ErrPostNotFound]
                /\ calls' = [calls EXCEPT ![t].pc = "unlock"]
                /\ UNCHANGED <<posts, reactions>>
           ELSE IF InvalidKind(reactionType)
           THEN /\ ret' = [call EXCEPT !.err = ErrInvalidReaction]
                /\ calls' = [calls EXCEPT ![t].pc = "unlock"]
                /\ UNCHANGED <<posts, reactions>>
           ELSE IF userID \notin DOMAIN ledger
           THEN /\ reactions' = MapPut(reactions, postID,
                                   MapPut(ledger, userID,
                                          [ReactionType |-> reactionType, CreatedAt |-> clock]))
                /\ calls' = [calls EXCEPT ![t].pc = "row written"]
                /\ UNCHANGED <<posts, ret>>
           ELSE IF ledger[userID].ReactionType # reactionType
           THEN /\ posts' = MapPut(posts, postID,
                               [posts[postID] EXCEPT !.Reactions =
                                   ChangeCount(@, ledger[userID].ReactionType, reactionType)])
                /\ calls' = [calls EXCEPT ![t].pc = "counts written"]
                /\ UNCHANGED <<reactions, ret>>
           ELSE /\ ret' = call
                /\ calls' = [calls EXCEPT ![t].pc = "unlock"]
                /\ UNCHANGED <<posts, reactions>>
        /\ UNCHANGED <<userPosts, tagPosts, clock, mutex, db>>

\* the rest of SaveReaction: the count of a new reaction, the ledger row of
\* a changed one
SaveReactionSecond(t) ==
    LET postID == calls[t].postID
        userID == calls[t].userID
        reactionType == calls[t].kind
    IN  /\ calls[t].op = "SaveReaction"
        /\ IF calls[t].pc = "row written"
           THEN /\ posts' = MapPut(posts, postID,
                               [posts[postID] EXCEPT !.Reactions = AddCount(@, reactionType)])
                /\ UNCHANGED reactions
           ELSE /\ calls[t].pc = "counts written"
                /\ reactions' = MapPut(reactions, postID,
                                   MapPut(reactions[postID], userID,
                                          [ReactionType |-> reactionType, CreatedAt |-> clock]))
                /\ UNCHANGED posts
        /\ calls' = [calls EXCEPT ![t].pc = "unlock"]
        /\ ret' = [NoRet EXCEPT !.op = "SaveReaction"]
        /\ UNCHANGED <<userPosts, tagPosts, clock, mutex, db>>

\* the body of GetPost; the goroutine keeps the returned copy, whose
\* Reactions map, when not nil, is the map of the stored post
GetPostBody(t) ==
    LET postID == calls[t].postID
    IN  /\ calls[t].pc = "body"
        /\ calls[t].op = "GetPost"
        /\ IF postID \notin DOMAIN posts
           THEN /\ ret' = [NoRet EXCEPT !.op = "GetPost", !.err = ErrPostNotFound]
                /\ calls' = [calls EXCEPT ![t].pc = "unlock"]
           ELSE /\ ret' = [NoRet EXCEPT !.op = "GetPost", !.found = TRUE,
                                        !.list = <<posts[postID]>>]
                /\ calls' = [calls EXCEPT ![t].pc = "unlock",
                                          ![t].held = IF posts[postID].Reactions.isNil
                                                      THEN "" ELSE postID]
        /\ UNCHANGED <<store, clock, mutex, db>>

\* the deferred s.mutex.Unlock() or s.mutex.RUnlock(); the call returns
Unlock(t) ==
    /\ calls[t].pc = "unlock"
    /\ mutex' = [mutex EXCEPT !.writer = IF @ = t THEN NoThread ELSE @,
                              !.readers = @ \ {t}]
    /\ calls' = [calls EXCEPT ![t] = [IdleCall EXCEPT !.held = calls[t].held,
                                                      !.read = calls[t].read]]
    /\ UNCHANGED <<store, clock, ret, db>>

\* a goroutine is inside SaveReaction on the post, before or between its
\* writes to post.Reactions and the ledger
WritesReactionsOf(w, postID) ==
    /\ calls[w].op = "SaveReaction"
    /\ calls[w].postID = postID
    /\ calls[w].pc \in {"body", "row written", "counts written"}
    /\ postID \in DOMAIN posts
    /\ ~InvalidKind(calls[w].kind)

\* the read of goroutine t of the Reactions map it keeps would run while
\* another goroutine writes that map
RacesWithStore(t) ==
    /\ calls[t].held # ""
    /\ \E w \in Threads \ {t} : WritesReactionsOf(w, calls[t].held)

FatalMapAccess == "fatal error: concurrent map read and map write"

\* a goroutine reads returned.Reactions[kind] of the copy it keeps, holding
\* no lock; beside a write of the store the read gives a count or stops the
\* program
ReadHeld(t) ==
    /\ calls[t].pc = "idle"
    /\ calls[t].held # ""
    /\ \E outcome \in IF RacesWithStore(t) THEN {"count", FatalMapAccess} ELSE {"count"} :
          calls' = [calls EXCEPT ![t].read = outcome]
    /\ UNCHANGED <<store, clock, ret, mutex, db>>

\* a step of the call goroutine t is in
CallStep(t) ==
    \/ SavePostFirst(t)
    \/ SavePostSecond(t)
    \/ DeletePostFirst(t)
    \/ DeletePostSecond(t)
    \/ SaveReactionFirst(t)
    \/ SaveReactionSecond(t)
    \/ GetPostBody(t)
    \/ Unlock(t)

(***************************************************************************)
(* PostManagerImpl.UpdatePost beside other calls                           *)
(***************************************************************************)
\* the posts goroutines update
UpdatePosts ==
    [ID : {"p1"}, UserID : {"u1"}, Content : {"c", "d"}, Tags : {<<>>, <<"a">>},
     CreatedAt : {0}, UpdatedAt : {0}, Reactions : {NilReactions},
     Comments : {0}, Shares : {0}, Visibility : {"public"}]

\* UpdatePost up to the owner check: m.store.GetPost is one call of the
\* store, and the goroutine leaves the store's lock when it returns
UpdatePostCheck(t, post) ==
    /\ calls[t].pc = "idle"
    /\ IF post.ID = ""
       THEN /\ ret' = [NoRet EXCEPT !.op = "UpdatePost", !.err = ErrPostIDRequired]
            /\ UNCHANGED calls
       ELSE IF post.ID \notin DOMAIN posts
       THEN /\ ret' = [NoRet EXCEPT !.op = "UpdatePost", !.err = ErrPostNotFound]
            /\ UNCHANGED calls
       ELSE IF posts[post.ID].UserID # post.UserID
       THEN /\ ret' = [NoRet EXCEPT !.op = "UpdatePost", !.err = ErrUnauthorized]
            /\ UNCHANGED calls
       ELSE /\ calls' = [calls EXCEPT ![t] =
                            [IdleCall EXCEPT !.op = "UpdatePost", !.pc = "checked",
                                             !.post = [post EXCEPT !.CreatedAt =
                                                          posts[post.ID].CreatedAt]]]
            /\ UNCHANGED ret
    /\ UNCHANGED <<store, clock, mutex, db>>

\* the rest of UpdatePost: post.UpdatedAt = time.Now() and m.store.SavePost,
\* a second call of the store
UpdatePostSave(t) ==
    /\ calls[t].pc = "checked"
    /\ calls[t].op = "UpdatePost"
    /\ StorePost([calls[t].post EXCEPT !.UpdatedAt = clock], FALSE)
    /\ ret' = [NoRet EXCEPT !.op = "UpdatePost"]
    /\ calls' = [calls EXCEPT ![t] = IdleCall]
    /\ UNCHANGED <<clock, mutex, db>>

(***************************************************************************)
(* GormPostStore: SavePost and DeletePost in a transaction                 *)
(***************************************************************************)
\* the error of a statement the database could not run
ErrDatabase == "database error"

\* the statements SavePost runs after the lookup, in the order of the code:
\* those of a new post, those of a stored one
NewSteps(post) ==
    <<"create post">>
    \o (IF post.Media # {} THEN <<"create media">> ELSE <<>>)
    \o (IF post.Tags # <<>> THEN <<"ensure tags", "replace tags">> ELSE <<>>)
    \o (IF SumOver(post.Reactions.m, DOMAIN post.Reactions.m) > 0
        THEN <<"create reactions">> ELSE <<>>)

UpdateSteps(post) ==
    <<"save post", "delete media">>
    \o (IF post.Media # {} THEN <<"create media">> ELSE <<>>)
    \o <<"ensure tags", "replace tags">>

\* the columns of a PostModel written from the post; the update branch
\* leaves CreatedAt as the lookup loaded it (the zero time when it loaded
\* nothing)
PostRow(post, createdAt) ==
    [UserID |-> post.UserID, Content |-> post.Content, CreatedAt |-> createdAt,
     UpdatedAt |-> post.UpdatedAt, Visibility |-> post.Visibility,
     Comments |-> post.Comments, Shares |-> post.Shares]

\* strconv of a non-negative int, as fmt.Sprintf("%d", i) writes it
Digits == <<"0", "1", "2", "3", "4", "5", "6", "7", "8", "9">>

RECURSIVE Itoa(_)
Itoa(i) == IF i < 10 THEN Digits[i + 1] ELSE Itoa(i \div 10) \o Digits[(i % 10) + 1]

\* the ReactionModel rows SavePost creates for the counts of a new post: for
\* every kind, one row per unit of the count, of the users "system-0",
\* "system-1", ...
SystemRows(post) ==
    UNION {{[PostID |-> post.ID, UserID |-> "system-" \o Itoa(i), ReactionType |-> kind] :
                i \in 0..(post.Reactions.m[kind] - 1)} :
           kind \in DOMAIN post.Reactions.m}

\* PostID and UserID are the primary key of ReactionModel: creating the rows
\* fails when two of them, or one of them and a row of the table, have the
\* same post and user
DuplicateKey(d, post) ==
    \E r1 \in SystemRows(post) :
        \E r2 \in (SystemRows(post) \ {r1}) \cup d.reactions :
            r2.PostID = r1.PostID /\ r2.UserID = r1.UserID

\* the tables after one statement; id is the primary key of the PostModel
\* the statement works on
Statement(d, step, post, id) ==
    CASE step = "create post" ->
           [d EXCEPT !.posts = MapPut(@, post.ID, PostRow(post, post.CreatedAt))]
      [] step = "save post" ->
           [d EXCEPT !.posts = MapPut(@, id, PostRow(post, IF id \in DOMAIN @ THEN @[id].CreatedAt
                                                              ELSE 0))]
      [] step = "delete media" ->
           [d EXCEPT !.media = {row \in @ : row[1] # post.ID}]
      [] step = "create media" ->
           [d EXCEPT !.media = @ \cup {<<post.ID, m>> : m \in post.Media}]
      [] step = "ensure tags" ->
           [d EXCEPT !.tags = @ \cup Elems(post.Tags)]
      [] step = "replace tags" ->
           [d EXCEPT !.postTags = {row \in @ : row[1] # id}
                                  \cup {<<id, post.Tags[i]>> : i \in 1..Len(post.Tags)}]
      [] step = "create reactions" ->
           [d EXCEPT !.reactions = @ \cup SystemRows(post)]
      [] step = "delete reactions" ->
           [d EXCEPT !.reactions = {row \in @ : row.PostID # id}]
      [] step = "clear tags" ->
           [d EXCEPT !.postTags = {row \in @ : row[1] # id}]
      [] step = "delete post" ->
           [d EXCEPT !.posts = MapDelete(@, id),
                     !.media = {row \in @ : row[1] # id}]
      [] OTHER -> d

\* the tables after the statements of a transaction that runs to its end
RECURSIVE Run(_, _, _, _)
Run(d, steps, post, id) ==
    IF steps = <<>> THEN d
    ELSE Run(Statement(d, Head(steps), post, id), Tail(steps), post, id)

\* GormPostStore.SavePost(ctx, post) when statement failAt of the
\* transaction fails (0: none does).  Statement 1 is the lookup of the post:
\* only gorm.ErrRecordNotFound is looked at, so after any other error of the
\* lookup the update branch runs on a PostModel without ID, and the
\* transaction commits.  The error of a later statement, the duplicate key of
\* the reaction rows of a new post among them, is returned from the
\* transaction function, and db.Transaction rolls back.
GormSavePost(post, failAt) ==
    LET isNew == failAt # 1 /\ post.ID \notin DOMAIN db.posts
        id == IF failAt = 1 THEN "" ELSE post.ID
        steps == IF isNew THEN NewSteps(post) ELSE UpdateSteps(post)
        duplicate == isNew /\ DuplicateKey(db, post)
    IN  /\ failAt \in 0..(1 + Len(steps))
        /\ IF failAt > 1 \/ duplicate
           THEN /\ db' = db
                /\ ret' = [NoRet EXCEPT !.op = "SavePost", !.err = ErrDatabase]
           ELSE /\ db' = Run(db, steps, post, id)
                /\ ret' = [NoRet EXCEPT !.op = "SavePost"]
        /\ UNCHANGED <<store, clock, conc>>

\* GormPostStore.DeletePost(ctx, postID, userID) when statement failAt of
\* the transaction fails (0: none does): every error is returned from the
\* transaction function, and db.Transaction rolls back
GormDeletePost(postID, userID, failAt) ==
    LET call == [NoRet EXCEPT !.op = "DeletePost"]
        owned == postID \in DOMAIN db.posts /\ db.posts[postID].UserID = userID
        steps == <<"delete reactions", "delete media", "clear tags", "delete post">>
    IN  /\ failAt \in 0..(IF owned THEN 1 + Len(steps) ELSE 2)
        /\ IF failAt > 0
           THEN db' = db /\ ret' = [call EXCEPT !.err = ErrDatabase]
           ELSE IF postID \notin DOMAIN db.posts
           THEN db' = db /\ ret' = [call EXCEPT !.err = ErrPostNotFound]
           ELSE IF ~owned
           THEN db' = db /\ ret' = [call EXCEPT !.err = ErrPermissionDenied]
           ELSE db' = Run(db, steps, NoPost, postID) /\ ret' = call
        /\ UNCHANGED <<store, clock, conc>>

\* the reaction rows of a post and a user
ReactionRows(d, postID, userID) ==
    {row \in d.reactions : row.PostID = postID /\ row.UserID = userID}

\* GormPostStore.SaveReaction up to the transaction: the count of the posts
\* with the ID is a statement of its own, run before the transaction begins
GormSaveReactionCheck(t, postID, userID, reactionType) ==
    LET call == [NoRet EXCEPT !.op = "SaveReaction"]
    IN  /\ calls[t].pc = "idle"
        /\ IF postID \notin DOMAIN db.posts
           THEN ret' = [call EXCEPT !.err = ErrPostNotFound] /\ UNCHANGED calls
           ELSE IF InvalidKind(reactionType)
           THEN ret' = [call EXCEPT !.err = ErrInvalidReaction] /\ UNCHANGED calls
           ELSE /\ calls' = [calls EXCEPT ![t] =
                                [IdleCall EXCEPT !.op = "SaveReaction", !.pc = "counted",
                                                 !.postID = postID, !.userID = userID,
                                                 !.kind = reactionType]]
                /\ UNCHANGED ret
        /\ UNCHANGED <<store, clock, mutex, db>>

\* the transaction of GormPostStore.SaveReaction: a new row for a user
\* without one, the kind of the row changed for a user with another kind
GormSaveReactionWrite(t) ==
    LET postID == calls[t].postID
        userID == calls[t].userID
        row == [PostID |-> postID, UserID |-> userID, ReactionType |-> calls[t].kind]
    IN  /\ calls[t].pc = "counted"
        /\ calls[t].op = "SaveReaction"
        /\ db' = [db EXCEPT !.reactions = (@ \ ReactionRows(db, postID, userID)) \cup {row}]
        /\ ret' = [NoRet EXCEPT !.op = "SaveReaction"]
        /\ calls' = [calls EXCEPT ![t] = IdleCall]
        /\ UNCHANGED <<store, clock, mutex>>

\* the rows the WHERE clauses of GormPostStore.ListPosts keep: user_id,
\* visibility, created_at BETWEEN Start AND End, one IN subquery per tag
GormSelectedIDs(filter) ==
    {id \in DOMAIN db.posts :
        /\ filter.UserID # NoUser => db.posts[id].UserID = filter.UserID
        /\ filter.Visibility # "" => db.posts[id].Visibility = filter.Visibility
        /\ filter.HasTimeRange =>
              (filter.Start <= db.posts[id].CreatedAt /\ db.posts[id].CreatedAt <= filter.End)
        /\ \A i \in 1..Len(filter.Tags) : <<id, filter.Tags[i]>> \in db.postTags}

\* the column of ORDER BY: "reactions", an unknown field and no field all
\* fall back to created_at
GormSortField(filter) ==
    IF filter.SortBy \in {"created_at", "updated_at", "comments", "shares"}
    THEN filter.SortBy ELSE "created_at"

\* the value of a row in that column
GormSortKey(row, field) ==
    CASE field = "updated_at" -> row.UpdatedAt
      [] field = "comments" -> row.Comments
      [] field = "shares" -> row.Shares
      [] OTHER -> row.CreatedAt

\* ORDER BY is ASC only when SortBy is set and SortOrder is "asc"
GormAscending(filter) == filter.SortBy # "" /\ filter.SortOrder = "asc"

\* the orders the database may return the rows in: rows with equal keys
\* stand in any order
GormOrdered(filter) ==
    {p \in Orders(GormSelectedIDs(filter)) :
        \A i, j \in DOMAIN p :
            i < j =>
                LET ki == GormSortKey(db.posts[p[i]], GormSortField(filter))
                    kj == GormSortKey(db.posts[p[j]], GormSortField(filter))
                IN  IF GormAscending(filter) THEN ki <= kj ELSE ki >= kj}

\* LIMIT and OFFSET, set only when filter.Limit > 0
GormPage(ids, limit, offset) ==
    IF limit > 0
    THEN LET from == IF offset > 0 THEN offset ELSE 0
             to == IF from + limit < Len(ids) THEN from + limit ELSE Len(ids)
         IN  SubSeq(ids, from + 1, to)
    ELSE ids

\* the ID lists GormPostStore.ListPosts can return
GormListPostsReturns(filter) ==
    {GormPage(ids, filter.Limit, filter.Offset) : ids \in GormOrdered(filter)}

\* GormPostStore.ListPosts(ctx, filter): list holds the returned posts, made
\* from the rows
GormListPosts(filter) ==
    /\ \E ids \in GormListPostsReturns(filter) :
          ret' = [NoRet EXCEPT !.op = "GormListPosts",
                               !.list = [i \in DOMAIN ids |->
                                            [ID |-> ids[i], UserID |-> db.posts[ids[i]].UserID,
                                             CreatedAt |-> db.posts[ids[i]].CreatedAt,
                                             Shares |-> db.posts[ids[i]].Shares]]]
    /\ UNCHANGED <<store, clock, conc, db>>

\* the same post saved to an InMemoryPostStore and to a GormPostStore
SaveBoth(post) ==
    /\ RefsBounded(post)
    /\ StorePost(post, FALSE)
    /\ db' = Run(db, IF post.ID \in DOMAIN db.posts THEN UpdateSteps(post) ELSE NewSteps(post),
                 post, post.ID)
    /\ ret' = [NoRet EXCEPT !.op = "SavePost"]
    /\ UNCHANGED <<clock, conc>>

\* the result of the grouped count over the reaction rows of a post: one
\* entry per kind that has a row
GormCounts(d, postID) ==
    LET kinds == {row.ReactionType : row \in {r \in d.reactions : r.PostID = postID}}
    IN  [kind \in kinds |->
            Cardinality({row \in d.reactions : row.PostID = postID /\ row.ReactionType = kind})]

\* GormPostStore.GetReactionCounts(ctx, postID)
GormGetReactionCounts(postID) ==
    LET call == [NoRet EXCEPT !.op = "GormGetReactionCounts"]
    IN  /\ IF postID \notin DOMAIN db.posts
           THEN ret' = [call EXCEPT !.err = ErrPostNotFound]
           ELSE ret' = [call EXCEPT !.found = TRUE,
                                    !.counts = MakeReactions(GormCounts(db, postID))]
        /\ UNCHANGED <<store, clock, conc, db>>

\* the statements of the longest transaction
MaxStatements == 6

(***************************************************************************)
(* Specification                                                           *)
(***************************************************************************)
\* the owner index, the tag index and the queries over them
NextIndex ==
    \/ SaveNewObject(IndexPosts)
    \/ \E postID \in PostIDs, userID \in Users : DeletePost(postID, userID)
    \/ \E postID \in PostIDs : GetPost(postID)
    \/ \E filter \in FilterInputs : ListPosts(filter)

SpecIndex == Init /\ [][NextIndex]_vars

\* posts changed in place by the caller and saved again
NextAlias ==
    \/ SaveNewObject(AliasPosts)
    \/ SaveSameObject(AliasPosts)
    \/ \E postID \in PostIDs, userID \in Users : DeletePost(postID, userID)
    \/ \E filter \in FilterInputs : ListPosts(filter)

SpecAlias == Init /\ [][NextAlias]_vars

\* the reaction ledger and the per-kind counts of the posts
NextReactions ==
    \/ SaveNewObject(ReactionPosts)
    \/ SaveSameObject(ReactionPosts)
    \/ \E postID \in PostIDs, userID \in Users : DeletePost(postID, userID)
    \/ \E postID \in PostIDs, userID \in Users, kind \in KindInputs :
          SaveReaction(postID, userID, kind)
    \/ \E postID \in PostIDs, userID \in Users, kind \in KindInputs :
          DeleteReaction(postID, userID, kind)
    \/ \E postID \in PostIDs, userID \in Users : GetUserReaction(postID, userID)
    \/ \E postID \in PostIDs, reactionType \in KindFilterInputs,
            limit \in PageLimits, offset \in PageOffsets :
          GetReactedUsers(postID, reactionType, limit, offset)
    \/ \E postID \in PostIDs : GetReactionCounts(postID)
    \/ \E postID \in PostIDs : GetPost(postID)

SpecReactions == Init /\ [][NextReactions]_vars

\* the time range and visibility filters of ListPosts
NextQuery ==
    \/ SaveNewObject(QueryPosts)
    \/ \E postID \in PostIDs, userID \in Users : DeletePost(postID, userID)
    \/ \E filter \in QueryFilters : ListPosts(filter)

SpecQuery == Init /\ [][NextQuery]_vars

\* the pages of ListPosts
NextPages ==
    \/ SaveNewObject(QueryPosts)
    \/ \E postID \in PostIDs, userID \in Users : DeletePost(postID, userID)
    \/ \E filter \in PageFilters : ListPosts(filter)

SpecPages == Init /\ [][NextPages]_vars

\* the order of ListPosts
NextSort ==
    \/ SaveNewObject(SortPosts)
    \/ \E filter \in SortFilters : ListPosts(filter)

SpecSort == Init /\ [][NextSort]_vars

\* the trending list
NextTrending ==
    \/ SaveNewObject(TrendingPosts)
    \/ \E limit \in TrendingLimits : GetTrendingPosts(limit)

SpecTrending == Init /\ [][NextTrending]_vars

\* the feed
NextFeed ==
    \/ SaveNewObject(FeedPosts)
    \/ \E userID \in Users, limit \in FeedLimits, offset \in FeedOffsets :
          GetUserFeed(userID, limit, offset)

SpecFeed == Init /\ [][NextFeed]_vars

\* the post manager over the store, and callers that save in the store
\* directly
NextManager ==
    \/ Tick
    \/ \E post \in ManagerPosts : CreatePost(post)
    \/ \E post \in ManagerPosts : UpdatePost(post)
    \/ SaveNewObject(DirectPosts)
    \/ \E postID \in PostIDs, userID \in Users : DeletePost(postID, userID)
    \/ \E postID \in PostIDs : GetPost(postID)

SpecManager == Init /\ [][NextManager]_vars

\* callers that write to the posts the store returned
NextCopies ==
    \/ SaveNewObject(CopyPosts)
    \/ \E postID \in PostIDs : GetPost(postID)
    \/ ListPosts(NoFilter)
    \/ \E userID \in Users : GetUserFeed(userID, 0, 0)
    \/ GetTrendingPosts(0)
    \/ CallerWrites

SpecCopies == Init /\ [][NextCopies]_vars

\* goroutines that call the store at the same time
NextLock ==
    \/ \E t \in Threads, call \in LockCalls : EnterCall(t, call)
    \/ \E t \in Threads : AcquireLock(t)
    \/ \E t \in Threads : AcquireRLock(t)
    \/ \E t \in Threads : CallStep(t)
    \/ \E t \in Threads : ReadHeld(t)

SpecLock == Init /\ [][NextLock]_vars

\* the same with the scheduler's guarantees: a goroutine that can run does,
\* and a goroutine blocked in Lock() or RLock() gets the mutex when it is
\* free again and again (sync.Mutex hands over to starving waiters)
SpecLockFair ==
    /\ SpecLock
    /\ \A t \in Threads :
          /\ WF_vars(CallStep(t))
          /\ SF_vars(AcquireLock(t))
          /\ SF_vars(AcquireRLock(t))

\* goroutines that update posts while posts are created and deleted
NextUpdate ==
    \/ Tick
    \/ \E post \in UpdatePosts : CreatePost(post)
    \/ \E t \in Threads, post \in UpdatePosts : UpdatePostCheck(t, post)
    \/ \E t \in Threads : UpdatePostSave(t)
    \/ \E postID \in {"p1"}, userID \in Users : DeletePost(postID, userID)
    \/ \E postID \in {"p1"} : GetPost(postID)

SpecUpdate == Init /\ [][NextUpdate]_vars

\* reactions saved and removed at different times, and listed
NextReacted ==
    \/ Tick
    \/ SaveNewObject({post \in ReactionPosts : post.Reactions = NilReactions})
    \/ \E userID \in ReactedUsers, kind \in {ReactionLike, ReactionLove} :
          SaveReaction("p1", userID, kind)
    \/ DeleteReaction("p1", "u1", ReactionLike)
    \/ \E reactionType \in ReactedKinds, limit \in ReactedLimits, offset \in ReactedOffsets :
          GetReactedUsers("p1", reactionType, limit, offset)

SpecReacted == Init /\ [][NextReacted]_vars

\* posts saved to and deleted from GormPostStore over a database whose
\* statements can fail
NextGorm ==
    \/ \E post \in GormPosts, failAt \in 0..MaxStatements : GormSavePost(post, failAt)
    \/ \E postID \in {"p1", ""}, userID \in {"u1", "u2"}, failAt \in 0..MaxStatements :
          GormDeletePost(postID, userID, failAt)

SpecGorm == Init /\ [][NextGorm]_vars

\* callers that go on writing to the posts they saved
NextSaved ==
    \/ SaveNewObject({post \in CopyPosts : post.ID = "p1"})
    \/ GetPost("p1")
    \/ ListPosts(NoFilter)
    \/ \E userID \in Users : GetUserFeed(userID, 0, 0)
    \/ GetTrendingPosts(0)
    \/ SavedObjectWrites

SpecSaved == Init /\ [][NextSaved]_vars

\* goroutines that react to posts of GormPostStore while posts are saved and
\* deleted
NextGormReactions ==
    \/ \E post \in GormPlainPosts : GormSavePost(post, 0)
    \/ \E t \in Threads, userID \in {"u1", "u2"}, kind \in {ReactionLike, ReactionLove} :
          GormSaveReactionCheck(t, "p1", userID, kind)
    \/ \E t \in Threads : GormSaveReactionWrite(t)
    \/ \E userID \in {"u1", "u2"} : GormDeletePost("p1", userID, 0)

SpecGormReactions == Init /\ [][NextGormReactions]_vars

\* the two stores after the same saves, asked with the same filters
NextEquiv ==
    \/ \E post \in EquivPosts : SaveBoth(post)
    \/ \E filter \in EquivFilters : ListPosts(filter)
    \/ \E filter \in EquivFilters : GormListPosts(filter)

SpecEquiv == Init /\ [][NextEquiv]_vars

\* posts saved with reaction counts, and the counts read back
NextCounted ==
    \/ \E post \in CountedPosts : GormSavePost(post, 0)
    \/ \E postID \in PostIDs : GormGetReactionCounts(postID)
    \/ \E postID \in PostIDs : GormDeletePost(postID, "u1", 0)

SpecCounted == Init /\ [][NextCounted]_vars

(***************************************************************************)
(* Properties of the indices and of ListPosts                              *)
(***************************************************************************)
\* the IDs of the posts of a returned list
ListedIDs(list) == {list[i].ID : i \in 1..Len(list)}

\* the stored posts that carry every tag of the list
PostsWithAllTags(tags) ==
    {id \in DOMAIN posts : Elems(tags) \subseteq Elems(posts[id].Tags)}

\* the stored posts the user owns
PostsOwnedBy(userID) == {id \in DOMAIN posts : posts[id].UserID = userID}

\* C1: ListPosts with one or more tags and no user filter returns exactly
\* the stored posts whose tag list contains every requested tag
C1_TagFilterAllTags ==
    [][\A filter \in FilterInputs :
          (filter.UserID = NoUser /\ Len(filter.Tags) >= 1 /\ ListPosts(filter))
          => ListedIDs(ret'.list) = PostsWithAllTags(filter.Tags)]_vars

\* C2: ListPosts with a user filter and a tag filter returns only posts the
\* user owns that carry every requested tag; its candidate set is the owner
\* index intersected with the index of each requested tag
C2_UserAndTagFilter ==
    [][\A filter \in FilterInputs :
          (filter.UserID # NoUser /\ Len(filter.Tags) >= 1 /\ ListPosts(filter))
          => /\ ListedIDs(ret'.list) \subseteq
                    PostsOwnedBy(filter.UserID) \cap PostsWithAllTags(filter.Tags)
             /\ CandidateIDs(filter).ids =
                    {id \in Elems(userPosts[filter.UserID]) :
                        \A i \in 1..Len(filter.Tags) : id \in Elems(tagPosts[filter.Tags[i]])}]_vars

\* C3: a post ID is in the tag index of tag t exactly when a post with that
\* ID is stored and t is in its tag list
C3_TagIndexMatchesPosts ==
    \A t \in TagNames, id \in PostIDs :
        id \in Elems(tagPosts[t]) <=> (id \in DOMAIN posts /\ t \in Elems(posts[id].Tags))

\* C4: a post ID is in the owner index of user u exactly when a post with
\* that ID is stored and its UserID is u
C4_OwnerIndexMatchesPosts ==
    \A u \in Users, id \in PostIDs :
        id \in Elems(userPosts[u]) <=> (id \in DOMAIN posts /\ posts[id].UserID = u)

\* C5: ListPosts with only a user filter returns exactly the stored posts
\* whose UserID is the filter's UserID
C5_UserFilterExact ==
    [][\A filter \in FilterInputs :
          (filter.UserID # NoUser /\ Len(filter.Tags) = 0 /\ ListPosts(filter))
          => ListedIDs(ret'.list) = PostsOwnedBy(filter.UserID)]_vars

(***************************************************************************)
(* Properties of the reaction ledger                                       *)
(***************************************************************************)
\* the count the post of a posts table carries for a kind
CountIn(table, postID, kind) == MapGet(table[postID].Reactions.m, kind)

\* the number of ledger rows of a post
LedgerRows(postID) ==
    IF HasMap(postID) THEN Cardinality(DOMAIN reactions[postID]) ELSE 0

\* every kind a count may be kept for
AllKinds == ValidKinds \cup KindInputs

\* C6: the sum of a stored post's per-kind counts equals the number of
\* ledger rows recorded for the post
C6_CountsSumToLedgerRows ==
    \A id \in DOMAIN posts : sumReactions(posts[id].Reactions) = LedgerRows(id)

\* C7: when a user with a reaction of kind A saves a different valid kind B,
\* the count of A goes down by exactly 1, the count of B goes up by exactly
\* 1 and every other count stays
C7_ChangeMovesOneCount ==
    [][\A postID \in PostIDs, userID \in Users, kind \in KindInputs :
          (/\ postID \in DOMAIN posts
           /\ HasReaction(postID, userID)
           /\ kind \in ValidKinds
           /\ reactions[postID][userID].ReactionType # kind
           /\ SaveReaction(postID, userID, kind))
          => LET old == reactions[postID][userID].ReactionType
             IN  /\ CountIn(posts', postID, old) = CountIn(posts, postID, old) - 1
                 /\ CountIn(posts', postID, kind) = CountIn(posts, postID, kind) + 1
                 /\ \A k \in AllKinds \ {old, kind} :
                       CountIn(posts', postID, k) = CountIn(posts, postID, k)]_vars

\* C8: no per-kind count of a stored post is negative
C8_CountsNeverNegative ==
    \A id \in DOMAIN posts :
        \A k \in DOMAIN posts[id].Reactions.m : posts[id].Reactions.m[k] >= 0

\* a reaction was removed or changed and a count of its post stands at 0
C8_Witness ==
    /\ ret.op \in {"SaveReaction", "DeleteReaction"}
    /\ ret.err = ErrNil
    /\ \E id \in DOMAIN posts :
          /\ LedgerRows(id) > 0
          /\ \E k \in DOMAIN posts[id].Reactions.m : posts[id].Reactions.m[k] = 0

\* the user has no reaction of the kind on the post
NoSuchReaction(postID, userID, kind) ==
    ~HasReaction(postID, userID) \/ reactions[postID][userID].ReactionType # kind

\* C9: per (post, user) the reaction is none -> Add(k) -> k -> Add(k') -> k'
\* -> Remove(k') -> none: a successful SaveReaction makes its kind the
\* user's reaction, DeleteReaction of the user's kind removes it,
\* DeleteReaction of another kind or without a reaction returns no error and
\* leaves ledger and counts as they are, nothing else but deleting the post
\* changes the user's reaction, and GetUserReaction returns it
C9_ReactionStateMachine ==
    [][\A postID \in PostIDs, userID \in Users :
          /\ \A kind \in KindInputs :
                /\ (SaveReaction(postID, userID, kind) /\ ret'.err = ErrNil)
                      => UserReactionOf(postID, userID)' = kind
                /\ (/\ postID \in DOMAIN posts
                    /\ ~NoSuchReaction(postID, userID, kind)
                    /\ DeleteReaction(postID, userID, kind))
                      => /\ ret'.err = ErrNil
                         /\ UserReactionOf(postID, userID)' = ReactionNone
                /\ (/\ postID \in DOMAIN posts
                    /\ NoSuchReaction(postID, userID, kind)
                    /\ DeleteReaction(postID, userID, kind))
                      => /\ ret'.err = ErrNil
                         /\ UNCHANGED <<reactions, posts>>
          /\ UserReactionOf(postID, userID)' # UserReactionOf(postID, userID)
                => \/ \E kind \in ValidKinds : SaveReaction(postID, userID, kind)
                   \/ \E kind \in ValidKinds : DeleteReaction(postID, userID, kind)
                   \/ \E owner \in Users : DeletePost(postID, owner)
          /\ (postID \in DOMAIN posts /\ GetUserReaction(postID, userID))
                => /\ ret'.err = ErrNil
                   /\ ret'.found = HasReaction(postID, userID)
                   /\ ret'.value = UserReactionOf(postID, userID)]_vars

\* a DeleteReaction of another kind has returned without error while both
\* users hold a reaction on the post
C9_Witness ==
    /\ ret.op = "DeleteReaction"
    /\ ret.err = ErrNil
    /\ "p1" \in DOMAIN posts
    /\ UserReactionOf("p1", "u1") = ReactionLove
    /\ UserReactionOf("p1", "u2") = ReactionAngry

\* C10 as stated: SaveReaction with a kind outside 1..6 returns
\* ErrInvalidReaction whatever the other arguments and changes nothing
C10_InvalidKindAlwaysInvalidReaction ==
    [][\A postID \in PostIDs, userID \in Users, kind \in KindInputs :
          (kind \notin ValidKinds /\ SaveReaction(postID, userID, kind))
          => /\ ret'.err = ErrInvalidReaction
             /\ UNCHANGED store]_vars

\* C10 as amended: SaveReaction with a kind outside 1..6 returns
\* ErrInvalidReaction when the post is stored and ErrPostNotFound when it is
\* not, and in both cases leaves the counts and the ledger unchanged
C10_InvalidKindRejected ==
    [][\A postID \in PostIDs, userID \in Users, kind \in KindInputs :
          (kind \notin ValidKinds /\ SaveReaction(postID, userID, kind))
          => /\ ret'.err = IF postID \in DOMAIN posts
                           THEN ErrInvalidReaction ELSE ErrPostNotFound
             /\ UNCHANGED store]_vars

\* an out-of-range kind was refused on a post that carries a reaction
C10_Witness ==
    /\ ret.op = "SaveReaction"
    /\ ret.err = ErrInvalidReaction
    /\ \E id \in DOMAIN posts : LedgerRows(id) > 0 /\ sumReactions(posts[id].Reactions) > 0

(***************************************************************************)
(* Properties of DeletePost and of the calls on an unknown post            *)
(***************************************************************************)
\* C11: DeletePost with a userID that differs from the stored post's UserID
\* returns ErrPermissionDenied and changes nothing: the post, its index
\* entries and its reactions are as before
C11_NonOwnerDeleteDenied ==
    [][\A postID \in PostIDs, userID \in Users :
          (/\ postID \in DOMAIN posts
           /\ posts[postID].UserID # userID
           /\ DeletePost(postID, userID))
          => /\ ret'.err = ErrPermissionDenied
             /\ UNCHANGED store]_vars

\* a delete by another user was refused on a post that carries a reaction
C11_Witness ==
    /\ ret.op = "DeletePost"
    /\ ret.err = ErrPermissionDenied
    /\ \E id \in DOMAIN posts : LedgerRows(id) > 0 /\ Len(posts[id].Tags) > 0

\* C12: in the step in which DeletePost by the owner succeeds, the post,
\* every owner-index and tag-index entry for its ID and all its ledger
\* rows are gone, so that a post saved later under the same ID is listed
\* only under its new owner and tags and carries no user's reaction
C12_DeleteRemovesEverything ==
    [][\A postID \in PostIDs, userID \in Users :
          (DeletePost(postID, userID) /\ ret'.err = ErrNil)
          => /\ postID \notin DOMAIN posts'
             /\ postID \notin DOMAIN reactions'
             /\ \A u \in Users : postID \notin Elems(userPosts'[u])
             /\ \A t \in TagNames : postID \notin Elems(tagPosts'[t])]_vars

\* C13: GetPost, DeletePost, SaveReaction, DeleteReaction, GetUserReaction,
\* GetReactedUsers and GetReactionCounts on a post ID that is not stored
\* return ErrPostNotFound with a nil result and leave the store unchanged
C13_UnknownPostNotFound ==
    [][\A postID \in PostIDs :
          (/\ postID \notin DOMAIN posts
           /\ \/ GetPost(postID)
              \/ GetReactionCounts(postID)
              \/ \E userID \in Users :
                    \/ DeletePost(postID, userID)
                    \/ GetUserReaction(postID, userID)
                    \/ \E kind \in KindInputs :
                          \/ SaveReaction(postID, userID, kind)
                          \/ DeleteReaction(postID, userID, kind)
              \/ \E reactionType \in KindFilterInputs,
                    limit \in PageLimits, offset \in PageOffsets :
                    GetReactedUsers(postID, reactionType, limit, offset))
          => /\ ret'.err = ErrPostNotFound
             /\ ret'.found = FALSE
             /\ ret'.list = <<>>
             /\ ret'.counts = NilReactions
             /\ UNCHANGED store]_vars

\* a query of the reacted users was refused for an unknown post while a
\* stored post carries a reaction
C13_Witness ==
    /\ ret.op = "GetReactedUsers"
    /\ ret.err = ErrPostNotFound
    /\ \E id \in DOMAIN posts : LedgerRows(id) > 0

(***************************************************************************)
(* Properties of the filters, the order and the pages of the queries       *)
(***************************************************************************)
\* the first n elements of a list, all of them when it has fewer
Take(list, n) == SubSeq(list, 1, IF n < Len(list) THEN n ELSE Len(list))

\* a list without its first n elements, empty when it has no more than n
Drop(list, n) == SubSeq(list, n + 1, Len(list))

\* C14 as stated: ListPosts applies offset, then limit, to the filtered and
\* sorted result: nothing is returned when offset >= its size, and with
\* limit <= 0 everything from offset on is returned
C14_OffsetThenLimit ==
    [][\A filter \in PageFilters :
          (ret'.op = "ListPosts" /\ filter.Offset >= 0 /\ ListPosts(filter))
          => \E result \in Results(filter) :
                ret'.list = IF filter.Limit > 0
                            THEN Take(Drop(result, filter.Offset), filter.Limit)
                            ELSE Drop(result, filter.Offset)]_vars

\* C14 as amended: with limit > 0 ListPosts skips the first offset posts of
\* the filtered and sorted result and returns at most limit of the rest
\* (nothing when offset >= its size); with limit <= 0 it returns the whole
\* result and the offset is not applied
C14_OffsetOnlyWithLimit ==
    [][\A filter \in PageFilters :
          (ret'.op = "ListPosts" /\ filter.Offset >= 0 /\ ListPosts(filter))
          => /\ ret'.err = ErrNil
             /\ \E result \in Results(filter) :
                   ret'.list = IF filter.Limit > 0
                               THEN Take(Drop(result, filter.Offset), filter.Limit)
                               ELSE result]_vars

\* a second page of one post was returned out of two stored posts
C14_Witness ==
    /\ ret.op = "ListPosts"
    /\ ret.err = ErrNil
    /\ Cardinality(DOMAIN posts) = 2
    /\ Len(ret.list) = 1
    /\ \E result \in Results([NoFilter EXCEPT !.SortBy = "created_at"]) :
          ret.list = SubSeq(result, 2, 2) /\ result[1].CreatedAt < result[2].CreatedAt

\* the lists a ListPosts call with the filter can return in this state
ListPostsReturns(filter) ==
    {Paginate(result, filter.Limit, filter.Offset) : result \in Results(filter)}

\* C15: on an unchanged store two ListPosts calls with the same filter,
\* limit L and the offsets 0 and L return lists that share no post, also
\* when the filter sets no SortBy
C15_PagesDisjoint ==
    \A filter \in PageFilters :
        (filter.Limit > 0 /\ filter.Offset = filter.Limit)
        => \A first \in ListPostsReturns([filter EXCEPT !.Offset = 0]),
              second \in ListPostsReturns(filter) :
              ListedIDs(first) \cap ListedIDs(second) = {}

\* the value of a post a SortBy name stands for
SortKey(post, sortBy) ==
    CASE sortBy = "updated_at" -> post.UpdatedAt
      [] sortBy = "reactions" -> SumOver(post.Reactions.m, DOMAIN post.Reactions.m)
      [] sortBy = "comments" -> post.Comments
      [] sortBy = "shares" -> post.Shares
      [] OTHER -> post.CreatedAt

\* C16: with SortBy set ListPosts returns its list ordered by the named key
\* (created_at for an unknown name): non-decreasing, or non-increasing when
\* SortOrder is "desc"
C16_SortedByKey ==
    [][\A filter \in SortFilters :
          (ret'.op = "ListPosts" /\ filter.SortBy # "" /\ ListPosts(filter))
          => \A i, j \in 1..Len(ret'.list) :
                i < j =>
                   IF filter.SortOrder = "desc"
                   THEN SortKey(ret'.list[i], filter.SortBy) >= SortKey(ret'.list[j], filter.SortBy)
                   ELSE SortKey(ret'.list[i], filter.SortBy) <= SortKey(ret'.list[j], filter.SortBy)]_vars

\* a list of two posts was returned whose first post has more reactions and
\* shares, was created later and updated earlier than the second
C16_Witness ==
    /\ ret.op = "ListPosts"
    /\ Len(ret.list) = 2
    /\ sumReactions(ret.list[1].Reactions) > sumReactions(ret.list[2].Reactions)
    /\ ret.list[1].Shares > ret.list[2].Shares
    /\ ret.list[1].CreatedAt > ret.list[2].CreatedAt
    /\ ret.list[1].UpdatedAt < ret.list[2].UpdatedAt

\* C17: ListPosts with a time range returns a candidate post exactly when
\* its CreatedAt is strictly after Start and strictly before End, and with
\* a Visibility only posts of that visibility, on the path over all posts
\* and on the path over the indexed candidates alike
C17_TimeRangeAndVisibility ==
    [][\A filter \in QueryFilters :
          (ret'.op = "ListPosts" /\ ListPosts(filter))
          => LET candidates == IF filter.UserID = NoUser
                               THEN DOMAIN posts
                               ELSE Elems(userPosts[filter.UserID]) \cap DOMAIN posts
             IN  ListedIDs(ret'.list) =
                    {id \in candidates :
                        /\ filter.HasTimeRange =>
                              (filter.Start < posts[id].CreatedAt /\ posts[id].CreatedAt < filter.End)
                        /\ filter.Visibility # "" => posts[id].Visibility = filter.Visibility}]_vars

\* a list with the private post created inside the range was returned while
\* a private post created at the end of the range is stored
C17_Witness ==
    /\ ret.op = "ListPosts"
    /\ Len(ret.list) = 1
    /\ ret.list[1].CreatedAt = 2
    /\ ret.list[1].Visibility = "private"
    /\ \E id \in DOMAIN posts : posts[id].CreatedAt = 3 /\ posts[id].Visibility = "private"

\* the engagement score of a post: all its reaction counts, its comments
\* and its shares
Score(post) ==
    SumOver(post.Reactions.m, DOMAIN post.Reactions.m) + post.Comments + post.Shares

\* C18: GetTrendingPosts returns public posts only, in non-increasing order
\* of the engagement score whatever their creation times; with limit > 0
\* these are the first limit posts of that order, with limit <= 0 all of
\* them
C18_TrendingByEngagement ==
    [][\A limit \in TrendingLimits :
          (ret'.op = "GetTrendingPosts" /\ GetTrendingPosts(limit))
          => LET list == ret'.list
                 public == {id \in DOMAIN posts : posts[id].Visibility = "public"}
                 n == Cardinality(public)
             IN  /\ \A i \in 1..Len(list) :
                       list[i].ID \in public /\ list[i] = posts[list[i].ID]
                 /\ \A i, j \in 1..Len(list) :
                       i < j => (list[i].ID # list[j].ID /\ Score(list[i]) >= Score(list[j]))
                 /\ Len(list) = IF limit > 0 /\ limit < n THEN limit ELSE n
                 /\ \A id \in public \ ListedIDs(list) :
                       \A i \in 1..Len(list) : Score(posts[id]) <= Score(list[i])]_vars

\* the list was cut to the one public post of the highest score, which has
\* shares only and was created before the other public post
C18_Witness ==
    /\ ret.op = "GetTrendingPosts"
    /\ Len(ret.list) = 1
    /\ \E id \in DOMAIN posts :
          /\ posts[id].Visibility = "public"
          /\ Score(posts[id]) < Score(ret.list[1])
          /\ posts[id].CreatedAt > ret.list[1].CreatedAt
          /\ ret.list[1].Shares = 1 /\ ret.list[1].Comments = 0
          /\ ret.list[1].Reactions = NilReactions

\* the lists a GetUserFeed call can return in this state
GetUserFeedReturns(limit, offset) ==
    {Paginate(result, limit, offset) : result \in FeedResults}

\* C19: GetUserFeed returns public posts only, whatever the userID, ordered
\* by CreatedAt with the newest first, and the pages it cuts with limit L at
\* the offsets 0 and L of an unchanged store share no post
C19_FeedPublicNewestFirstPaged ==
    /\ \A limit \in FeedLimits, offset \in FeedOffsets :
          offset >= 0 =>
             \A list \in GetUserFeedReturns(limit, offset) :
                /\ \A i \in 1..Len(list) : list[i].Visibility = "public"
                /\ \A i, j \in 1..Len(list) :
                      i < j => list[i].CreatedAt >= list[j].CreatedAt
    /\ \A limit \in FeedLimits :
          limit > 0 =>
             \A first \in GetUserFeedReturns(limit, 0),
                second \in GetUserFeedReturns(limit, limit) :
                ListedIDs(first) \cap ListedIDs(second) = {}

(***************************************************************************)
(* Properties of saved posts                                               *)
(***************************************************************************)
\* C20: GetPost right after a successful save returns the saved ID, owner and
\* content (it returns a copy of the stored post), and the CreatedAt GetPost
\* returns for a post stays the value set at its creation across every
\* later successful update of the post
C20_SavedContentAndCreatedAtKept ==
    [][/\ \A post \in DirectPosts :
             SavePost(post, FALSE)
             => /\ post.ID \in DOMAIN posts'
                /\ posts'[post.ID].ID = post.ID
                /\ posts'[post.ID].UserID = post.UserID
                /\ posts'[post.ID].Content = post.Content
       /\ \A post \in ManagerPosts :
             ((CreatePost(post) \/ UpdatePost(post)) /\ ret'.err = ErrNil)
             => \E id \in DOMAIN posts' :
                   /\ post.ID # "" => id = post.ID
                   /\ posts'[id].ID = id
                   /\ posts'[id].UserID = post.UserID
                   /\ posts'[id].Content = post.Content
       /\ \A id \in DOMAIN posts \cap DOMAIN posts' :
             posts'[id].CreatedAt = posts[id].CreatedAt]_vars

(***************************************************************************)
(* Properties of returned posts                                            *)
(***************************************************************************)
\* C21: the posts GetPost, ListPosts, GetUserFeed and GetTrendingPosts
\* return are defensive copies: no write of a caller to a returned post
\* (its content, an element of its Tags, an entry of its Reactions) changes
\* the stored posts, which are what every later store call returns
C21_ReturnedPostsAreCopies ==
    [][CallerWrites => UNCHANGED store]_vars

\* C22: a goroutine that reads a field of a post GetPost returned, its
\* Reactions map included, while the store runs SaveReaction never reads
\* memory the store writes
C22_ReadsOfReturnedPostsDoNotRace ==
    [][\A t \in Threads : ReadHeld(t) => ~RacesWithStore(t)]_vars

\* a goroutine is between its Lock() or RLock() and the deferred release
InCall(t) == calls[t].pc \notin {"idle", "lock"}

\* a goroutine has made the first of the two writes of its call only
HalfApplied(t) ==
    calls[t].pc \in {"inserted", "reindexed", "unindexed", "row written", "counts written"}

\* C23: every call of the store runs under s.mutex, shared for GetPost and
\* exclusive for SavePost, DeletePost and SaveReaction, and releases it when
\* it returns: a writing call excludes every other call from start to end,
\* so no call runs beside a half-applied write, every change of the store
\* is made by the goroutine that holds the mutex for writing, and every
\* call that was started returns
C23_CallsAreSerialised ==
    /\ [](\A t \in Threads :
             /\ InCall(t) =>
                   IF IsWrite(calls[t].op)
                   THEN mutex.writer = t /\ mutex.readers = {}
                   ELSE t \in mutex.readers /\ mutex.writer = NoThread
             /\ InCall(t) /\ IsWrite(calls[t].op) => \A u \in Threads \ {t} : ~InCall(u)
             /\ HalfApplied(t) => \A u \in Threads \ {t} : ~InCall(u)
             /\ ~InCall(t) => mutex.writer # t /\ t \notin mutex.readers)
    /\ \A t \in Threads : calls[t].pc # "idle" ~> calls[t].pc = "idle"

\* a reader waits in RLock() while SaveReaction has written the ledger row
\* and not yet the count
C23_Witness ==
    \E w, r \in Threads :
        /\ calls[w].pc = "row written"
        /\ calls[r].op = "GetPost"
        /\ calls[r].pc = "lock"

C25_UpdateNeverCreates ==
    [][\A t \in Threads : UpdatePostSave(t) => DOMAIN posts' \subseteq DOMAIN posts]_vars

CurrentReactors(postID, reactionType) ==
    IF postID \in DOMAIN reactions
    THEN {userID \in DOMAIN reactions[postID] :
             reactionType = NoKindFilter
             \/ reactions[postID][userID].ReactionType = reactionType}
    ELSE {}

\* the arrangements of those users with no reaction before a more recent one
MostRecentFirst(postID, reactionType) ==
    {p \in Orders(CurrentReactors(postID, reactionType)) :
        \A i, j \in DOMAIN p :
            i < j => reactions[postID][p[i]].CreatedAt >= reactions[postID][p[j]].CreatedAt}

\* C27: GetReactedUsers on a stored post lists, without a kind, exactly the
\* users that have a reaction now and, with kind K, exactly the users whose
\* reaction is K now, the most recent reaction first; a limit above 0 cuts
\* the window of that list that starts at offset and is at most limit long
C27_ReactorsMostRecentFirst ==
    [][\A reactionType \in ReactedKinds, limit \in ReactedLimits, offset \in ReactedOffsets :
          (/\ ret'.op = "GetReactedUsers"
           /\ "p1" \in DOMAIN posts
           /\ GetReactedUsers("p1", reactionType, limit, offset))
          => /\ ret'.err = ErrNil
             /\ \E full \in MostRecentFirst("p1", reactionType) :
                   ret'.list = IF limit > 0 THEN Take(Drop(full, offset), limit) ELSE full]_vars

\* a page of one user was returned that starts after a more recent reaction
C27_Witness ==
    /\ ret.op = "GetReactedUsers"
    /\ ret.err = ErrNil
    /\ Len(ret.list) = 1
    /\ "p1" \in DOMAIN reactions
    /\ ret.list[1] \in DOMAIN reactions["p1"]
    /\ \E newer \in DOMAIN reactions["p1"] :
          reactions["p1"][newer].CreatedAt > reactions["p1"][ret.list[1]].CreatedAt

\* C28: CreatePost of a post without UserID returns "user ID is required" and
\* stores nothing; CreatePost of a post with a UserID and without ID returns
\* an ID it generated, and the post stored under that ID, which is the
\* caller's post, carries the ID, the owner and the content, and has
\* CreatedAt equal to UpdatedAt, the time of the call
C28_CreateValidatesAndStamps ==
    [][\A post \in ManagerPosts :
          (ret'.op = "CreatePost" /\ CreatePost(post))
          => IF post.UserID = NoUser
             THEN ret'.err = ErrUserIDRequired /\ ret'.id = "" /\ UNCHANGED store
             ELSE post.ID = ""
                  => /\ ret'.err = ErrNil
                     /\ ret'.id # ""
                     /\ ret'.id \notin DOMAIN posts
                     /\ ret'.id \in DOMAIN posts'
                     /\ posts'[ret'.id].ID = ret'.id
                     /\ posts'[ret'.id].UserID = post.UserID
                     /\ posts'[ret'.id].Content = post.Content
                     /\ posts'[ret'.id].CreatedAt = posts'[ret'.id].UpdatedAt
                     /\ posts'[ret'.id].CreatedAt = clock]_vars

\* a post was created under a generated ID after time had passed
C28_Witness ==
    /\ ret.op = "CreatePost"
    /\ ret.err = ErrNil
    /\ ret.id = "p2"
    /\ "p2" \in DOMAIN posts
    /\ posts["p2"].CreatedAt > 0
    /\ posts["p2"].CreatedAt = posts["p2"].UpdatedAt

\* C29: when a statement of GormPostStore.SavePost or DeletePost fails, the
\* call returns an error and every table is as it was before the call
C29_FailedTransactionChangesNothing ==
    [][/\ \A post \in GormPosts, failAt \in 1..MaxStatements :
             GormSavePost(post, failAt) => ret'.err # ErrNil /\ db' = db
       /\ \A postID \in {"p1", ""}, userID \in {"u1", "u2"}, failAt \in 1..MaxStatements :
             GormDeletePost(postID, userID, failAt) => ret'.err # ErrNil /\ db' = db]_vars

\* C30: SavePost of a stored ID leaves the ID once in the tag index of every
\* tag of the saved post and in the tag index of no other tag, whether the
\* caller passes a Post value of its own or the object it saved before,
\* with other tags written into it
C30_UpdateReindexesTags ==
    [][\A post \in AliasPosts, aliased \in BOOLEAN :
          (/\ ret'.op = "SavePost"
           /\ post.ID \in DOMAIN posts
           /\ SavePost(post, aliased))
          => \A t \in TagNames :
                Count(tagPosts'[t], post.ID) = IF t \in Elems(post.Tags) THEN 1 ELSE 0]_vars

\* C31: SavePost of an ID that is not stored appends the ID once to the
\* owner's index and once to the index of every tag the post carries, also
\* when the tag list of the post names a tag twice
C31_InsertAppendsOncePerTag ==
    [][\A post \in IndexPosts :
          (/\ ret'.op = "SavePost"
           /\ post.ID \notin DOMAIN posts
           /\ SavePost(post, FALSE))
          => /\ Count(userPosts'[post.UserID], post.ID)
                   = Count(userPosts[post.UserID], post.ID) + 1
             /\ \A t \in TagNames :
                   Count(tagPosts'[t], post.ID)
                       = Count(tagPosts[t], post.ID) + (IF t \in Elems(post.Tags) THEN 1 ELSE 0)]_vars

\* a stored post is still stored with the owner, content, tags and creation
\* time it had
SamePost(postID, before, after) ==
    /\ postID \in DOMAIN after
    /\ after[postID].UserID = before[postID].UserID
    /\ after[postID].Content = before[postID].Content
    /\ after[postID].Tags = before[postID].Tags
    /\ after[postID].CreatedAt = before[postID].CreatedAt

\* C32: a CreatePost or UpdatePost with the ID of a stored post and another
\* UserID than the post's, and a DeletePost by another user than its owner,
\* leave the post stored with its owner, content, tags and CreatedAt
C32_OtherUsersChangeNothing ==
    [][/\ \A post \in ManagerPosts :
             (/\ post.ID \in DOMAIN posts
              /\ posts[post.ID].UserID # post.UserID
              /\ (CreatePost(post) \/ UpdatePost(post)))
             => SamePost(post.ID, posts, posts')
       /\ \A postID \in PostIDs, userID \in Users :
             (/\ postID \in DOMAIN posts
              /\ posts[postID].UserID # userID
              /\ DeletePost(postID, userID))
             => SamePost(postID, posts, posts')]_vars

\* C33: SavePost of a stored ID leaves the reactions of the post as they
\* were: the count GetReactionCounts gives for every kind and the reaction
\* GetUserReaction gives for every user
C33_UpdateKeepsReactions ==
    [][\A post \in ReactionPosts :
          (/\ ret'.op = "SavePost"
           /\ post.ID \in DOMAIN posts
           /\ SavePost(post, FALSE))
          => /\ \A kind \in AllKinds :
                   CountIn(posts', post.ID, kind) = CountIn(posts, post.ID, kind)
             /\ reactions' = reactions]_vars

\* C34: SaveReaction with the kind of the reaction the user already has on
\* the post returns no error and leaves the ledger, the time of the row
\* included, and the counts of the post as they were
C34_RepeatedKindChangesNothing ==
    [][\A userID \in ReactedUsers, kind \in {ReactionLike, ReactionLove} :
          (/\ ret'.op = "SaveReaction"
           /\ "p1" \in DOMAIN posts
           /\ HasReaction("p1", userID)
           /\ reactions["p1"][userID].ReactionType = kind
           /\ SaveReaction("p1", userID, kind))
          => /\ ret'.err = ErrNil
             /\ reactions' = reactions
             /\ posts' = posts]_vars

\* a SaveReaction returned while a user's reaction is older than the call
C34_Witness ==
    /\ ret.op = "SaveReaction"
    /\ ret.err = ErrNil
    /\ clock > 0
    /\ "p1" \in DOMAIN posts
    /\ \E userID \in ReactedUsers :
          /\ HasReaction("p1", userID)
          /\ reactions["p1"][userID].CreatedAt < clock
          /\ CountIn(posts, "p1", reactions["p1"][userID].ReactionType) = 1

\* C35: a write of a caller to a Post object it passed to SavePost earlier
\* (its content, tags, visibility or reaction counts) does not change the
\* stored posts, which are what GetPost, ListPosts, GetUserFeed and
\* GetTrendingPosts return, until the caller saves again
C35_SavedPostsAreCopies ==
    [][SavedObjectWrites => posts' = posts]_vars

\* C36: ListPosts returns a list and a nil error, with no slice access out
\* of range, for every limit and offset, a negative offset with a positive
\* limit included
C36_EveryPageReturns ==
    [][\A filter \in PageFilters :
          (ret'.op = "ListPosts" /\ ListPosts(filter)) => ret'.err = ErrNil]_vars

\* C37: in GormPostStore every reaction row belongs to a stored post, also
\* when SaveReaction and DeletePost of the same post run side by side
C37_ReactionRowsOfStoredPosts ==
    \A row \in db.reactions : row.PostID \in DOMAIN db.posts

\* the IDs of a list of posts, in the order of the list
IDsOf(list) == [i \in DOMAIN list |-> list[i].ID]

\* C38: after the same saves, InMemoryPostStore.ListPosts and
\* GormPostStore.ListPosts can return, for the same filter, the same posts
\* in the same order
C38_StoresListAlike ==
    \A filter \in EquivFilters :
        {IDsOf(list) : list \in ListPostsReturns(filter)} = GormListPostsReturns(filter)

\* C39: SavePost of a new post that carries reaction counts returns no
\* error on the GormPostStore, and GetReactionCounts then gives exactly the
\* supplied count for every kind
C39_SuppliedCountsStored ==
    [][\A post \in CountedPosts :
          (/\ ret'.op = "SavePost"
           /\ post.ID \notin DOMAIN db.posts
           /\ GormSavePost(post, 0))
          => /\ ret'.err = ErrNil
             /\ post.ID \in DOMAIN db'.posts
             /\ \A kind \in ValidKinds :
                   MapGet(GormCounts(db', post.ID), kind) = MapGet(post.Reactions.m, kind)]_vars

====
